---- MODULE Spec2Model ----
(***************************************************************************)
(* A model of the WAV metadata codec of AudioMetadataEditor                *)
(* (wav_metadata.py): read_wav_metadata, the RIFF chunk walker of          *)
(* WavMetadata and its bext / iXML / INFO extractors, down to the bytes of *)
(* the file.  A file is a sequence of bytes (0..255); text is a sequence   *)
(* of character codes.                                                     *)
(***************************************************************************)
EXTENDS Integers, Sequences, FiniteSets, TLC

(***************************************************************************)
(* Bytes and text                                                          *)
(***************************************************************************)

\* The printable ASCII characters, code 32 first (the grave accent, code 96,
\* is left out).
Ascii ==
  << " ", "!", "\"", "#", "$", "%", "&", "'", "(", ")", "*", "+", ",", "-", ".", "/",
     "0", "1", "2", "3", "4", "5", "6", "7", "8", "9", ":", ";", "<", "=", ">", "?",
     "@", "A", "B", "C", "D", "E", "F", "G", "H", "I", "J", "K", "L", "M", "N", "O",
     "P", "Q", "R", "S", "T", "U", "V", "W", "X", "Y", "Z", "[", "\\", "]", "^", "_",
     "",  "a", "b", "c", "d", "e", "f", "g", "h", "i", "j", "k", "l", "m", "n", "o",
     "p", "q", "r", "s", "t", "u", "v", "w", "x", "y", "z", "{", "|", "}", "~" >>

\* The code of a printable character.
Ord(c) == 31 + (CHOOSE i \in 1..Len(Ascii) : Ascii[i] = c)

\* A bytes literal, written as a tuple of characters: B(<<"b","e","x","t">>).
B(s) == [i \in 1..Len(s) |-> Ord(s[i])]

\* The element of a set of one element.  The({e : x \in {v}}) is e with x
\* standing for v, and v evaluated once: TLC evaluates an argument and a LET
\* each time it is used, a bound variable only once.
The(S) == CHOOSE r \in S : TRUE

RECURSIVE Flat(_)
\* The concatenation of a sequence of sequences.
Flat(ss) ==
  The({IF Len(s) = 0 THEN <<>> ELSE Head(s) \o Flat(Tail(s)) : s \in {ss \o <<>>}})

Min(S) == CHOOSE x \in S : \A y \in S : x <= y

Letters == (Ord("A")..Ord("Z")) \cup (Ord("a")..Ord("z"))
Digits == Ord("0")..Ord("9")
\* \w of a str pattern, within ASCII.
WordChars == Letters \cup Digits \cup {Ord("_")}
\* str.isspace() and \s of a str pattern, within ASCII: \t \n \v \f \r,
\* the separators 28..31 and the space.
Whitespace == (9..13) \cup (28..32)
\* The characters a decoded text can hold (decode drops every other byte).
TextChars == 0..127

\* b[start:stop] of Python (0-based, stop exclusive, clamped to the length).
Slice(b, start, stop) ==
  LET hi == IF stop < Len(b) THEN stop ELSE Len(b)
  IN  IF start >= hi THEN <<>> ELSE SubSeq(b, start + 1, hi)

\* b.split(b'\0', 1)[0]: the bytes before the first NUL.
UntilNul(b) ==
  LET nuls == {i \in 1..Len(b) : b[i] = 0}
  IN  IF nuls = {} THEN b ELSE SubSeq(b, 1, Min(nuls) - 1)

RECURSIVE Decode(_)
\* b.decode('utf-8', errors='ignore') on single-byte text: an ASCII byte is
\* its character, a byte that starts no valid sequence is dropped.
Decode(b) ==
  IF Len(b) = 0 THEN <<>>
  ELSE IF Head(b) \in TextChars THEN <<Head(b)>> \o Decode(Tail(b))
       ELSE Decode(Tail(b))

\* str.strip().
Strip(t) ==
  LET keep == {i \in 1..Len(t) : t[i] \notin Whitespace}
  IN  IF keep = {} THEN <<>>
      ELSE SubSeq(t, Min(keep), CHOOSE i \in keep : \A j \in keep : j <= i)

(***************************************************************************)
(* Regular expressions (module re): a backtracking matcher.  A pattern is  *)
(* a tree; re_m yields every way the pattern matches at a position, in the *)
(* order backtracking tries them, so the first is the match re returns.    *)
(***************************************************************************)

\* One character of a set.
ReSet(s) == [op |-> "set", s |-> s]
ReCat(xs) == [op |-> "cat", xs |-> xs]
\* a|b|..., tried left to right.
ReAlt(xs) == [op |-> "alt", xs |-> xs]
\* x?, greedy.
ReOpt(x) == [op |-> "opt", x |-> x]
\* x*, greedy.
ReStar(x) == [op |-> "star", x |-> x]
\* x+, greedy.
RePlus(x) == ReCat(<<x, ReStar(x)>>)
\* Capturing group n.
ReGroup(n, x) == [op |-> "grp", n |-> n, x |-> x]
\* A letter under re.IGNORECASE matches both cases.
CaseFold(b) ==
  IF b \in Ord("A")..Ord("Z") THEN {b, b + 32}
  ELSE IF b \in Ord("a")..Ord("z") THEN {b, b - 32} ELSE {b}
\* A literal word under re.IGNORECASE.
ReWord(s) == ReCat([i \in 1..Len(s) |-> ReSet(CaseFold(Ord(s[i])))])

NoGroups == [n \in 1..2 |-> <<0, 0>>]

RECURSIVE re_m(_, _, _, _)
RECURSIVE re_cat(_, _, _, _, _)
RECURSIVE re_star(_, _, _, _)

\* The matches of r in t at p, as [e, g]: e the position after the match,
\* g the groups, which were g before it.
re_m(r, t, p, g) ==
  CASE r.op = "set" ->
         IF p <= Len(t) /\ t[p] \in r.s THEN << [e |-> p + 1, g |-> g] >> ELSE <<>>
    [] r.op = "cat" -> re_cat(r.xs, 1, t, p, g)
    [] r.op = "alt" -> Flat([i \in 1..Len(r.xs) |-> re_m(r.xs[i], t, p, g)])
    [] r.op = "opt" -> re_m(r.x, t, p, g) \o << [e |-> p, g |-> g] >>
    [] r.op = "star" -> re_star(r.x, t, p, g)
    [] r.op = "grp" ->
         The({[i \in 1..Len(ms) |->
                 [e |-> ms[i].e, g |-> [ms[i].g EXCEPT ![r.n] = <<p, ms[i].e>>]]] :
              ms \in {re_m(r.x, t, p, g)}})

re_cat(xs, i, t, p, g) ==
  IF i > Len(xs) THEN << [e |-> p, g |-> g] >>
  ELSE The({Flat([k \in 1..Len(ms) |->
                    The({re_cat(xs, i + 1, t, m.e, m.g) : m \in {ms[k]}})]) :
            ms \in {re_m(xs[i], t, p, g)}})

re_star(x, t, p, g) ==
  The({Flat([k \in 1..Len(ms) |->
               The({IF m.e > p THEN re_star(x, t, m.e, m.g) ELSE <<>> : m \in {ms[k]}})])
       \o << [e |-> p, g |-> g] >> :
       ms \in {re_m(x, t, p, g)}})

\* re.search(r, t): the match at the leftmost position that has one, as
\* [found, g]; g[n] is group n's span.
re_search(r, t) ==
  The({IF starts = {} THEN [found |-> FALSE, g |-> NoGroups]
       ELSE The({[found |-> TRUE, g |-> re_m(r, t, p0, NoGroups)[1].g] :
                 p0 \in {Min(starts)}}) :
       starts \in {{p \in 1..(Len(t) + 1) : Len(re_m(r, t, p, NoGroups)) > 0}}})

\* match.group(n).
re_group(t, m, n) == SubSeq(t, m.g[n][1], m.g[n][2] - 1)

\* [:\s]+
ReLabelSep == RePlus(ReSet({Ord(":")} \cup Whitespace))
\* [_\s]*
ReJoin == ReStar(ReSet({Ord("_")} \cup Whitespace))
\* (\w[^,;\r\n]*) as group 1
ReValue ==
  ReGroup(1, ReCat(<< ReSet(WordChars),
                      ReStar(ReSet(TextChars \ {Ord(","), Ord(";"), 13, 10})) >>))

\* (?:SHOW|PROGRAM|SERIES)[:\s]+(\w[^,;\r\n]*), re.IGNORECASE
show_re ==
  ReCat(<< ReAlt(<< ReWord(<<"S","H","O","W">>),
                    ReWord(<<"P","R","O","G","R","A","M">>),
                    ReWord(<<"S","E","R","I","E","S">>) >>),
           ReLabelSep, ReValue >>)

\* S(?:C|CNE)?[_\s]*(\d+)[_\s]*T(?:K|AKE)?[_\s]*(\d+), re.IGNORECASE
scene_take_re ==
  ReCat(<< ReWord(<<"S">>),
           ReOpt(ReAlt(<< ReWord(<<"C">>), ReWord(<<"C","N","E">>) >>)),
           ReJoin, ReGroup(1, RePlus(ReSet(Digits))), ReJoin,
           ReWord(<<"T">>),
           ReOpt(ReAlt(<< ReWord(<<"K">>), ReWord(<<"A","K","E">>) >>)),
           ReJoin, ReGroup(2, RePlus(ReSet(Digits))) >>)

\* SC(?:ENE|N)?[:\s]+(\w+), re.IGNORECASE
scene_re ==
  ReCat(<< ReWord(<<"S","C">>),
           ReOpt(ReAlt(<< ReWord(<<"E","N","E">>), ReWord(<<"N">>) >>)),
           ReLabelSep, ReGroup(1, RePlus(ReSet(WordChars))) >>)

\* T(?:AKE|K)?[:\s]+(\w+), re.IGNORECASE
take_re ==
  ReCat(<< ReWord(<<"T">>),
           ReOpt(ReAlt(<< ReWord(<<"A","K","E">>), ReWord(<<"K">>) >>)),
           ReLabelSep, ReGroup(1, RePlus(ReSet(WordChars))) >>)

\* (?:CAT(?:EGORY)?|TYPE)[:\s]+(\w[^,;\r\n]*), re.IGNORECASE
cat_re ==
  ReCat(<< ReAlt(<< ReCat(<< ReWord(<<"C","A","T">>),
                            ReOpt(ReWord(<<"E","G","O","R","Y">>)) >>),
                    ReWord(<<"T","Y","P","E">>) >>),
           ReLabelSep, ReValue >>)

\* (?:SUB(?:CAT(?:EGORY)?)?|SUBTYPE)[:\s]+(\w[^,;\r\n]*), re.IGNORECASE
subcat_re ==
  ReCat(<< ReAlt(<< ReCat(<< ReWord(<<"S","U","B">>),
                            ReOpt(ReCat(<< ReWord(<<"C","A","T">>),
                                           ReOpt(ReWord(<<"E","G","O","R","Y">>)) >>)) >>),
                    ReWord(<<"S","U","B","T","Y","P","E">>) >>),
           ReLabelSep, ReValue >>)

(***************************************************************************)
(* The metadata record and its guarded assignments                         *)
(***************************************************************************)

\* The fields read_metadata initialises to "" (Filename and File Path are
\* kept apart, in the variable path).
Fields ==
  {"Show", "Scene", "Take", "Category", "Subcategory", "Slate",
   "ixmlNote", "ixmlWildtrack", "ixmlCircled"}

EmptyFields == [f \in Fields |-> <<>>]

\* Python's None: a value that is no text.
None == << -1 >>
\* The truth value Python gives a text or None.
Truthy(v) == v # None /\ v # <<>>

\* Fill without "if not metadata[f]": the assignment overwrites.
FillOverwrite(rec, f, v) == IF Truthy(v) THEN [rec EXCEPT ![f] = v] ELSE rec

\* One guarded assignment of the extractors,
\*   if not metadata[f]: ... if v: metadata[f] = v
Fill(rec, f, v) == IF ~Truthy(rec[f]) /\ Truthy(v) THEN [rec EXCEPT ![f] = v] ELSE rec

\* Try had the text found for ixmlCircled, the element SLATE among its
\* sources, been for the field Slate.
Try_slate(f, v) == [f |-> IF f = "ixmlCircled" THEN "Slate" ELSE f, v |-> v]

\* An assignment the code would try: field f, candidate value v.
Try(f, v) == [f |-> f, v |-> v]
\* The assignment tried when the regular expression r matches t: group n.
TryGroup(f, r, t, n) ==
  The({IF m.found THEN << Try(f, re_group(t, m, n)) >> ELSE <<>> :
       m \in {re_search(r, t)}})

(***************************************************************************)
(* _process_bext_chunk                                                     *)
(***************************************************************************)

\* The text the bext regular expressions search:
\* description + " " + originator + " " + orig_ref.
bext_text(bext_data) ==
  LET description == Strip(Decode(UntilNul(Slice(bext_data, 0, 256))))
      originator == Strip(Decode(UntilNul(Slice(bext_data, 256, 288))))
      orig_ref == Strip(Decode(UntilNul(Slice(bext_data, 288, 320))))
  IN  description \o <<32>> \o originator \o <<32>> \o orig_ref

\* The assignments _process_bext_chunk tries, in its order: Show, the
\* combined scene/take pattern, then the Scene and Take labels.
process_bext_chunk(bext_data) ==
  The({TryGroup("Show", show_re, t, 1)
       \o TryGroup("Scene", scene_take_re, t, 1)
       \o TryGroup("Take", scene_take_re, t, 2)
       \o TryGroup("Scene", scene_re, t, 1)
       \o TryGroup("Take", take_re, t, 1) :
       t \in {bext_text(bext_data)}})

(***************************************************************************)
(* struct.unpack('<I', ...)                                                *)
(***************************************************************************)

\* Every offset of the model lies far below 2^30, so a size of 2^30 or more
\* reaches past the end of every file, whatever its exact value is.
Far == 2^30

\* The little-endian unsigned 32-bit value of four bytes: exact below Far;
\* a larger value is given as Far or Far + 1, keeping its parity.
unpack_I(b) ==
  IF b[4] >= 64 THEN Far + (b[1] % 2)
  ELSE b[1] + 256 * b[2] + 65536 * b[3] + 16777216 * b[4]

(***************************************************************************)
(* xml.etree.ElementTree: fromstring and find, for the XML the files of    *)
(* the model hold: elements without attributes, character data with the    *)
(* references &amp; &lt; &gt;.  Anything else is a ParseError.             *)
(***************************************************************************)

XmlNameChars == WordChars \cup {Ord("-"), Ord(".")}
XmlSpace == {9, 10, 13, 32}
XmlFail == [ok |-> FALSE]

\* The first position from p on that holds no name character.
XmlNameEnd(b, p) ==
  Min({q \in p..(Len(b) + 1) : q = Len(b) + 1 \/ b[q] \notin XmlNameChars})
\* The first position from p on that holds "<", or the end.
XmlTextEnd(b, p) ==
  Min({q \in p..(Len(b) + 1) : q = Len(b) + 1 \/ b[q] = Ord("<")})

\* The first position from p on that holds no white space.
XmlSpaceEnd(b, p) ==
  Min({q \in p..(Len(b) + 1) : q = Len(b) + 1 \/ b[q] \notin XmlSpace})

XmlRefs ==
  << [ref |-> B(<<"&","a","m","p",";">>), char |-> Ord("&")],
     [ref |-> B(<<"&","l","t",";">>), char |-> Ord("<")],
     [ref |-> B(<<"&","g","t",";">>), char |-> Ord(">")] >>

RECURSIVE xml_unescape(_)
\* Character data with its references replaced; None where a reference is
\* not one of XmlRefs.
xml_unescape(t) ==
  IF Len(t) = 0 THEN <<>>
  ELSE IF Head(t) # Ord("&")
  THEN The({ IF rest = None THEN None ELSE << Head(t) >> \o rest :
             rest \in {xml_unescape(Tail(t))} })
  ELSE The({ IF refs = {} THEN None
             ELSE The({ IF rest = None THEN None
                        ELSE << XmlRefs[The(refs)].char >> \o rest :
                        rest \in {xml_unescape(SubSeq(t, Len(XmlRefs[The(refs)].ref) + 1,
                                                      Len(t)))} }) :
             refs \in {{i \in 1..Len(XmlRefs) :
                          SubSeq(t, 1, Len(XmlRefs[i].ref)) = XmlRefs[i].ref}} })

RECURSIVE xml_element(_, _)
RECURSIVE xml_content(_, _, _)

\* The element that starts at p: [ok, node, e], e the position after it.  A
\* node is [tag, text, kids]; text is "" where ElementTree has None.
xml_element(b, p) ==
  IF ~(p <= Len(b) /\ b[p] = Ord("<")) THEN XmlFail
  ELSE
    LET name_end == XmlNameEnd(b, p + 1)
        tag == SubSeq(b, p + 1, name_end - 1)
        n == XmlSpaceEnd(b, name_end)
    IN  IF name_end = p + 1 \/ n > Len(b) \/ b[p + 1] \in Digits THEN XmlFail
        ELSE IF b[n] = Ord(">") THEN
          LET te == XmlTextEnd(b, n + 1)
              c == xml_content(b, te, tag)
              text == xml_unescape(SubSeq(b, n + 1, te - 1))
          IN  IF c.ok /\ text # None
              THEN [ok |-> TRUE, e |-> c.e,
                    node |-> [tag |-> tag, text |-> text, kids |-> c.kids]]
              ELSE XmlFail
        ELSE IF b[n] = Ord("/") /\ n + 1 <= Len(b) /\ b[n + 1] = Ord(">")
          THEN [ok |-> TRUE, e |-> n + 2,
                node |-> [tag |-> tag, text |-> <<>>, kids |-> <<>>]]
        ELSE XmlFail

\* The children of the element named tag from p (a "<" or the end) up to
\* its end tag: [ok, kids, e].
xml_content(b, p, tag) ==
  IF p + 1 > Len(b) THEN XmlFail
  ELSE IF b[p + 1] = Ord("/") THEN
    LET n == XmlNameEnd(b, p + 2)
    IN  IF SubSeq(b, p + 2, n - 1) = tag /\ n <= Len(b) /\ b[n] = Ord(">")
        THEN [ok |-> TRUE, kids |-> <<>>, e |-> n + 1]
        ELSE XmlFail
  ELSE
    LET k == xml_element(b, p)
    IN  IF ~k.ok THEN XmlFail
        ELSE LET rest == xml_content(b, XmlTextEnd(b, k.e), tag)
             IN  IF rest.ok
                 THEN [ok |-> TRUE, kids |-> <<k.node>> \o rest.kids, e |-> rest.e]
                 ELSE XmlFail

\* ET.fromstring(b): [ok, root]; ok is FALSE where it raises ParseError.
ET_fromstring(b) ==
  LET body == {i \in 1..Len(b) : b[i] \notin XmlSpace}
  IN  IF body = {} THEN XmlFail
      ELSE LET r == xml_element(b, Min(body))
           IN  IF r.ok /\ \A i \in body : i < r.e
               THEN [ok |-> TRUE, root |-> r.node] ELSE XmlFail

RECURSIVE Descendants(_)
\* The elements below node, in document order.
Descendants(node) ==
  Flat([i \in 1..Len(node.kids) |-> <<node.kids[i]>> \o Descendants(node.kids[i])])

RECURSIVE WithTag(_, _)
\* The elements of elems named tag, in order.
WithTag(elems, tag) ==
  IF Len(elems) = 0 THEN <<>>
  ELSE (IF Head(elems).tag = tag THEN <<Head(elems)>> ELSE <<>>)
       \o WithTag(Tail(elems), tag)

RECURSIVE xml_children(_, _, _)
\* The elements path[i..] selects below each of elems (one "/" step each).
xml_children(elems, path, i) ==
  IF i > Len(path) THEN elems
  ELSE xml_children(
         Flat([k \in 1..Len(elems) |-> WithTag(elems[k].kids, path[i])]),
         path, i + 1)

\* root.findall(".//" + "/".join(path)), in the order find takes its first.
xml_findall(root, path) ==
  xml_children(WithTag(Descendants(root), path[1]), path, 2)

RECURSIVE find_element_text(_, _)
\* find_element_text(root, *paths) of _process_ixml_chunk: the stripped text
\* of the first path whose element has text, or None.
find_element_text(root, paths) ==
  IF Len(paths) = 0 THEN None
  ELSE LET found == xml_findall(root, Head(paths))
       IN  IF Len(found) > 0 /\ found[1].text # <<>>
           THEN Strip(found[1].text)
           ELSE find_element_text(root, Tail(paths))

\* safe_find_text(root, path) of read_metadata.
safe_find_text(root, path) ==
  LET found == xml_findall(root, path)
  IN  IF Len(found) > 0 /\ found[1].text # <<>> THEN Strip(found[1].text) ELSE <<>>

(***************************************************************************)
(* _process_ixml_chunk                                                     *)
(***************************************************************************)

\* The tag paths of each field, after the leading ".//".
ixml_paths ==
  [f \in {"Show", "Scene", "Take", "Category", "Subcategory", "ixmlNote", "ixmlCircled"} |->
    CASE f = "Show" ->
           << <<B(<<"S","H","O","W">>)>>, <<B(<<"P","R","O","G","R","A","M">>)>>,
              <<B(<<"S","E","R","I","E","S">>)>>, <<B(<<"P","R","O","J","E","C","T">>)>>,
              <<B(<<"T","I","T","L","E">>)>> >>
      [] f = "Scene" ->
           << <<B(<<"S","C","E","N","E">>)>>, <<B(<<"B","W","F","_","S","C","E","N","E">>)>>,
              <<B(<<"B","W","F","C","O","R","E">>), B(<<"B","W","F","_","S","C","E","N","E">>)>>,
              <<B(<<"B","w","f","C","o","r","e">>), B(<<"B","W","F","_","S","C","E","N","E">>)>> >>
      [] f = "Take" ->
           << <<B(<<"T","A","K","E">>)>>, <<B(<<"B","W","F","_","T","A","K","E">>)>>,
              <<B(<<"B","W","F","C","O","R","E">>), B(<<"B","W","F","_","T","A","K","E">>)>>,
              <<B(<<"B","w","f","C","o","r","e">>), B(<<"B","W","F","_","T","A","K","E">>)>> >>
      [] f = "Category" ->
           << <<B(<<"C","A","T","E","G","O","R","Y">>)>>, <<B(<<"T","Y","P","E">>)>>,
              <<B(<<"K","I","N","D">>)>> >>
      [] f = "Subcategory" ->
           << <<B(<<"S","U","B","C","A","T","E","G","O","R","Y">>)>>,
              <<B(<<"S","U","B","T","Y","P","E">>)>>, <<B(<<"S","U","B","K","I","N","D">>)>> >>
      [] f = "ixmlNote" ->
           << <<B(<<"N","O","T","E">>)>>, <<B(<<"C","O","M","M","E","N","T","S">>)>>,
              <<B(<<"C","O","M","M","E","N","T">>)>>,
              <<B(<<"D","E","S","C","R","I","P","T","I","O","N">>)>> >>
      [] f = "ixmlCircled" ->
           << <<B(<<"C","I","R","C","L","E","D">>)>>, <<B(<<"S","L","A","T","E">>)>>,
              <<B(<<"G","O","O","D","_","T","A","K","E">>)>> >>]

\* The order in which _process_ixml_chunk looks for the fields.
ixml_order == <<"Show", "Scene", "Take", "Category", "Subcategory", "ixmlNote", "ixmlCircled">>

\* _process_ixml_chunk on the bytes read: the assignments it tries, and the
\* exception it catches ("none", or "ParseError" from ET.fromstring).
process_ixml_chunk(ixml_data) ==
  IF \E i \in 1..Len(ixml_data) : ixml_data[i] = Ord("<")
     /\ \E j \in 1..Len(ixml_data) : ixml_data[j] = Ord(">")
  THEN LET x == ET_fromstring(ixml_data)
       IN  IF x.ok
           THEN [exc |-> "none",
                 tries |-> [i \in 1..Len(ixml_order) |->
                              Try(ixml_order[i],
                                  find_element_text(x.root, ixml_paths[ixml_order[i]]))]]
           ELSE [exc |-> "ParseError", tries |-> <<>>]
  ELSE [exc |-> "none", tries |-> <<>>]

(***************************************************************************)
(* _process_info_chunk                                                     *)
(***************************************************************************)

\* The assignments one ISBJ or ICMT item tries: Show, Category, Subcategory,
\* each the stripped group 1 of its pattern.
info_item_tries(list_text) ==
  LET st(tr) == [i \in 1..Len(tr) |-> Try(tr[i].f, Strip(tr[i].v))]
  IN  st(TryGroup("Show", show_re, list_text, 1))
      \o st(TryGroup("Category", cat_re, list_text, 1))
      \o st(TryGroup("Subcategory", subcat_re, list_text, 1))

RECURSIVE info_items(_, _)
\* The while loop of _process_info_chunk from offset pos (0-based) on: the
\* assignments its items try, in order.
info_items(info_data, pos) ==
  IF ~(pos < Len(info_data) - 8) THEN <<>>
  ELSE
    LET list_id == Slice(info_data, pos, pos + 4)
        list_size == unpack_I(Slice(info_data, pos + 4, pos + 8))
        data_pos == pos + 8
    IN  IF list_size > 0 /\ data_pos + list_size <= Len(info_data)
        THEN LET list_text ==
                   Strip(Decode(UntilNul(Slice(info_data, data_pos, data_pos + list_size))))
                 here == IF list_id \in {B(<<"I","S","B","J">>), B(<<"I","C","M","T">>)}
                         THEN info_item_tries(list_text) ELSE <<>>
             IN  here \o info_items(info_data, data_pos + list_size + (list_size % 2))
        ELSE <<>>

process_info_chunk(info_data) == info_items(info_data, 0)

(***************************************************************************)
(* read_metadata: the pass over the wavinfo reader's views                 *)
(***************************************************************************)

\* A view of the reader (wav_info.bext, wav_info.ixml) is None or an object;
\* an object's attrs maps the names of its attributes to a text or None.
NoView == [kind |-> "None"]

bext_field_map ==
  [k \in {"Show", "Scene", "Take"} |->
    CASE k = "Show" ->
           <<"show", "Show", "SHOW", "program", "Program", "PROGRAM",
             "series", "Series", "SERIES">>
      [] k = "Scene" ->
           <<"scene", "Scene", "SCENE", "scn", "SCN", "SceneNumber",
             "SCENE_NUMBER", "scene_number">>
      [] k = "Take" ->
           <<"take", "Take", "TAKE", "tk", "TK", "TakeNumber",
             "TAKE_NUMBER", "take_number">>]
bext_field_order == <<"Show", "Scene", "Take">>

ixml_field_map ==
  [k \in {"Category", "Subcategory", "ixmlNote", "ixmlCircled"} |->
    CASE k = "Category" ->
           <<"CATEGORY", "Category", "category", "TYPE", "Type", "type",
             "KIND", "Kind", "kind">>
      [] k = "Subcategory" ->
           <<"SUBCATEGORY", "Subcategory", "subcategory", "SUBTYPE", "Subtype",
             "subtype", "SUBKIND", "Subkind", "subkind">>
      [] k = "ixmlNote" ->
           <<"NOTE", "Note", "note", "COMMENT", "Comment", "comment",
             "DESCRIPTION", "Description", "description">>
      [] k = "ixmlCircled" ->
           <<"CIRCLED", "Circled", "circled", "SLATE", "Slate", "slate",
             "GOOD_TAKE", "GoodTake", "goodtake">>]
ixml_field_order == <<"Category", "Subcategory", "ixmlNote", "ixmlCircled">>

RECURSIVE first_variation(_, _)
\* The inner loop over field_variations: the stripped value of the first
\* name the mapping holds with a true value that is not blank, or None.
\*   if hasattr(o, name) and getattr(o, name):
\*       value = str(getattr(o, name)).strip()
\*       if value: ... break
first_variation(attrs, names) ==
  IF Len(names) = 0 THEN None
  ELSE IF Head(names) \in DOMAIN attrs /\ Truthy(attrs[Head(names)])
          /\ Strip(attrs[Head(names)]) # <<>>
       THEN Strip(attrs[Head(names)])
       ELSE first_variation(attrs, Tail(names))

\* The loop over a field map: one assignment for each key a name is found for.
field_map_tries(attrs, map, order) ==
  Flat([i \in 1..Len(order) |->
          LET v == first_variation(attrs, map[order[i]])
          IN  IF v = None THEN <<>> ELSE << Try(order[i], v) >>])

\* Lines 75-113: the assignments tried from wav_info.bext.
lib_bext_tries(bext) ==
  IF bext.kind = "None" THEN <<>>
  ELSE field_map_tries(bext.attrs, bext_field_map, bext_field_order)
       \o (IF "description" \in DOMAIN bext.attrs /\ Truthy(bext.attrs["description"])
           THEN LET desc == Strip(bext.attrs["description"])
                IN  TryGroup("Scene", scene_take_re, desc, 1)
                    \o TryGroup("Take", scene_take_re, desc, 2)
           ELSE <<>>)

\* Lines 124-224: the assignments tried from wav_info.ixml and the exception
\* caught on the way ("none", "to_dict" from ixml.to_dict(), "ParseError"
\* from ET.fromstring).  An object has to_dict; its to_dict raises, returns
\* None or returns a dict.  Any other true value is the raw XML.
lib_ixml_tries(ixml) ==
  CASE ixml.kind = "None" -> [exc |-> "none", tries |-> <<>>]
    [] ixml.kind = "object" ->
         LET direct == field_map_tries(ixml.attrs, ixml_field_map, ixml_field_order)
         IN  IF ixml.to_dict.kind = "raise" THEN [exc |-> "to_dict", tries |-> direct]
             ELSE IF ixml.to_dict.kind = "None" THEN [exc |-> "none", tries |-> direct]
             ELSE [exc |-> "none",
                   tries |-> direct \o field_map_tries(ixml.to_dict.d, ixml_field_map,
                                                       ixml_field_order)]
    [] ixml.kind = "raw" ->
         IF Len(ixml.data) > 0 /\ \E i \in 1..Len(ixml.data) : ixml.data[i] = Ord("<")
         THEN LET x == ET_fromstring(ixml.data)
              IN  IF x.ok
                  THEN [exc |-> "none",
                        tries |->
                          << Try("Category",
                                 safe_find_text(x.root, <<B(<<"C","A","T","E","G","O","R","Y">>)>>)),
                             Try("Subcategory",
                                 safe_find_text(x.root,
                                   <<B(<<"S","U","B","C","A","T","E","G","O","R","Y">>)>>)),
                             Try("ixmlNote", safe_find_text(x.root, <<B(<<"N","O","T","E">>)>>)),
                             Try("ixmlCircled",
                                 safe_find_text(x.root, <<B(<<"C","I","R","C","L","E","D">>)>>)) >>]
                  ELSE [exc |-> "ParseError", tries |-> <<>>]
         ELSE [exc |-> "none", tries |-> <<>>]

(***************************************************************************)
(* Exceptions                                                              *)
(***************************************************************************)

\* An exception: its class and str(e).
Exc(type, msg) == [type |-> type, msg |-> msg]

\* Catches had every handler been "except (OSError, ValueError)".
CatchesOSErrorValueError(handler, e) ==
  e.type \in {"FileNotFoundError", "PermissionError", "OSError", "ValueError"}

\* Whether the except clause of a handler catches an exception.  Every
\* handler here is "except Exception" (or a bare except) and every exception
\* of the model is an Exception.
Catches(handler, e) == TRUE

\* The handler that ends the propagation of e; chain lists the try
\* statements around the place that raises, innermost first.  "caller": none
\* of them, e leaves read_wav_metadata.
CaughtBy(chain, e) ==
  LET hs == {i \in 1..Len(chain) : Catches(chain[i], e)}
  IN  IF hs = {} THEN "caller" ELSE chain[Min(hs)]

(***************************************************************************)
(* The files, paths and reader views the model reads                       *)
(***************************************************************************)

\* The number of metadata chunks a generated file holds at most.
MaxChunks == 2

ID_RIFF == B(<<"R","I","F","F">>)
ID_WAVE == B(<<"W","A","V","E">>)
ID_bext == B(<<"b","e","x","t">>)
ID_iXML == B(<<"i","X","M","L">>)
ID_INFO == B(<<"I","N","F","O">>)
ID_LIST == B(<<"L","I","S","T">>)
ID_junk == B(<<"j","u","n","k">>)
ID_fmt == B(<<"f","m","t"," ">>)
ID_data == B(<<"d","a","t","a">>)

pack_I(n) ==
  << n % 256, (n \div 256) % 256, (n \div 65536) % 256, (n \div 16777216) % 256 >>

\* A chunk as a RIFF writer lays it out: ID, size, payload, pad byte.
Chunk(id, payload) ==
  id \o pack_I(Len(payload)) \o payload \o (IF Len(payload) % 2 = 1 THEN <<0>> ELSE <<>>)
\* A chunk whose size field and padding are whatever the file says.
RawChunk(id, size, rest) == id \o size \o rest
\* A container: magic, size, form type, body.
Riff(magic, form, body) == magic \o pack_I(4 + Len(body)) \o form \o body

\* 16-bit mono PCM at 44100 Hz.
FmtChunk == Chunk(ID_fmt, <<1, 0, 1, 0, 68, 172, 0, 0, 136, 88, 1, 0, 2, 0, 16, 0>>)
DataChunk == Chunk(ID_data, <<0, 0>>)

BextST == Chunk(ID_bext, B(<<"S","1","T","2"," ","S","C",":","7">>))
BextShow == Chunk(ID_bext, B(<<"s","h","o","w",":","P">>))
IxmlScene ==
  Chunk(ID_iXML, B(<<"<","R",">","<","S","C","E","N","E",">","5","<","/","S","C","E","N","E",">",
                     "<","N","O","T","E",">","n","<","/","N","O","T","E",">","<","/","R",">">>))
IxmlBad == Chunk(ID_iXML, B(<<"<","R",">">>))
InfoCat ==
  Chunk(ID_INFO, Chunk(B(<<"I","S","B","J">>), B(<<"C","A","T",":","x">>))
                 \o Chunk(B(<<"I","C","M","T">>), B(<<"s","h","o","w"," ","Q",",","t","y","p","e",":","y">>))
                 \o <<0>>)
\* The INFO list as the RIFF layout holds it: a LIST chunk of form type INFO.
ListCat ==
  Chunk(ID_LIST, ID_INFO \o Chunk(B(<<"I","S","B","J">>), B(<<"C","A","T",":","z">>)) \o <<0>>)
JunkOdd == Chunk(ID_junk, <<7>>)

Palette == << JunkOdd, BextST, BextShow, IxmlScene, IxmlBad, InfoCat, ListCat >>

\* Well-formed files: fmt, up to MaxChunks chunks of the palette, data.
WellFormed ==
  { Riff(ID_RIFF, ID_WAVE,
         FmtChunk \o Flat([i \in 1..Len(c) |-> Palette[c[i]]]) \o DataChunk) :
      c \in UNION {[1..m -> 1..Len(Palette)] : m \in 0..MaxChunks} }

\* Files a careful writer would not have made.
Malformed ==
  { \* another magic, another form type
    Riff(B(<<"R","F","6","4">>), ID_WAVE,
         Chunk(B(<<"d","s","6","4">>), [i \in 1..28 |-> 0])
         \o FmtChunk \o BextST \o DataChunk),
    Riff(ID_RIFF, B(<<"A","V","I"," ">>), FmtChunk \o IxmlScene \o DataChunk),
    \* a header cut short after the ID and two bytes of the size
    Riff(ID_RIFF, ID_WAVE, FmtChunk \o DataChunk \o BextShow \o ID_bext \o <<4, 0>>),
    \* a declared size that runs past the end of the file
    Riff(ID_RIFF, ID_WAVE, FmtChunk \o DataChunk
                           \o RawChunk(ID_bext, pack_I(200), B(<<"S","3","T","4">>))),
    Riff(ID_RIFF, ID_WAVE, FmtChunk \o DataChunk
                           \o RawChunk(ID_junk, <<255, 255, 255, 255>>, <<>>) \o BextST),
    \* an odd chunk without its pad byte
    Riff(ID_RIFF, ID_WAVE, FmtChunk \o DataChunk
                           \o RawChunk(ID_junk, pack_I(1), <<7>>) \o BextST),
    \* an empty chunk
    Riff(ID_RIFF, ID_WAVE, FmtChunk \o DataChunk
                           \o RawChunk(ID_iXML, pack_I(0), <<>>) \o BextShow) }

\* Files below the least size of a WAV file: 0, 10 and 43 bytes.
PlainWav == Riff(ID_RIFF, ID_WAVE, FmtChunk \o DataChunk)
TooSmall == { <<>>, SubSeq(PlainWav, 1, 10), SubSeq(PlainWav, 1, 43) }

\* What the file system holds at the path: nothing, a file that may not be
\* read, or a file that may.
FileStates ==
  { [exists |-> FALSE, readable |-> FALSE, data |-> <<>>] }
  \cup { [exists |-> TRUE, readable |-> FALSE, data |-> d] :
           d \in {SubSeq(PlainWav, 1, 10), PlainWav} }
  \cup { [exists |-> TRUE, readable |-> TRUE, data |-> d] :
           d \in WellFormed \cup Malformed \cup TooSmall }

Paths == { B(<<"a",".","w">>), B(<<"d","/","a",".","w">>) }

\* The top-level chunks of a file by the RIFF layout: the chunk after one at
\* offset off with size n starts at off + 8 + n + (n mod 2).
RECURSIVE riff_chunks(_, _)
riff_chunks(data, off) ==
  IF off + 8 > Len(data) THEN <<>>
  ELSE LET n == unpack_I(Slice(data, off + 4, off + 8))
       IN  << [off |-> off, id |-> Slice(data, off, off + 4), size |-> n] >>
           \o riff_chunks(data, off + 8 + n + (n % 2))

HasChunk(data, id) ==
  \E i \in 1..Len(riff_chunks(data, 12)) : riff_chunks(data, 12)[i].id = id

\* What WavInfoReader(path) may do: raise (str(e) may be empty), or give a
\* reader.  The reader's bext and ixml are None unless the file has the chunk.
ReaderErrors == { <<>>, B(<<"b","a","d">>) }

BextViews ==
  { NoView,
    [kind |-> "object", attrs |-> [description |-> B(<<"S","3","T","4">>)]],
    [kind |-> "object",
     attrs |-> [show |-> <<32>>, Show |-> B(<<"L"," ">>), scene |-> None,
                SCENE |-> B(<<"9">>), description |-> None]] }

IxmlViews ==
  { NoView,
    [kind |-> "object", attrs |-> [CATEGORY |-> B(<<"A">>)],
     to_dict |-> [kind |-> "raise"]],
    [kind |-> "object", attrs |-> [Note |-> B(<<"m">>)],
     to_dict |-> [kind |-> "dict", d |-> [NOTE |-> B(<<"k">>), KIND |-> B(<<"K">>)]]],
    [kind |-> "object", attrs |-> [CIRCLED |-> None], to_dict |-> [kind |-> "None"]],
    [kind |-> "raw",
     data |-> B(<<"<","R",">","<","C","A","T","E","G","O","R","Y",">","Z",
                  "<","/","C","A","T","E","G","O","R","Y",">","<","/","R",">">>)],
    [kind |-> "raw", data |-> B(<<"<","R",">">>)] }

BextViewsOf(data) == {v \in BextViews : v.kind = "None" \/ HasChunk(data, ID_bext)}
IxmlViewsOf(data) == {v \in IxmlViews : v.kind = "None" \/ HasChunk(data, ID_iXML)}

(***************************************************************************)
(* read_wav_metadata(file_path, debug) as a state machine                  *)
(***************************************************************************)

VARIABLES
  file_path,   \* the argument file_path
  debug,       \* the argument debug
  file,        \* the file system at file_path: [exists, readable, data]
  pc,          \* where the call is
  f_pos,       \* the position of the file object f of _dump_all_wav_chunks
  metadata,    \* the dict metadata of read_metadata
  tries,       \* the assignments the running extractor has yet to try
  resume,      \* where the call goes on when tries is empty
  hdrs,        \* history: the chunk headers the walker has read
  caught,      \* history: the exceptions a handler has caught
  ret          \* how the call ended

vars == << file_path, debug, file, pc, f_pos, metadata, tries, resume, hdrs, caught, ret >>

\* The process around the calls: the files, the cache of read_wav_metadata
\* and the dicts its callers hold.
VARIABLES
  disk,        \* the files: the one at the path, its backup, the temp file
  cache,       \* the entries of the lru_cache, the least recently used first
  heap,        \* the dicts read_wav_metadata has returned, by object
  all_files,   \* the object the editor holds for the path (0: none)
  others,      \* the number of other paths read
  changes,     \* the number of changes of the file from outside the process
  calls,       \* the number of calls of the process and changes of the file
  original,    \* history: the file before the first write that succeeded
  made,        \* history: each dict as read_wav_metadata made it
  prev,        \* history: the object the last call with a key returned (0: none)
  since,       \* history: the other keys used since the last call with a key
  last         \* history: the last call and how it ended

pvars ==
  << disk, cache, heap, all_files, others, changes, calls, original, made, prev, since, last >>

\* The least size of a WAV file read_wav_metadata accepts.
MinWavSize == 44

Keys == Fields \cup {"Filename", "File Path"}

\* os.path.basename(p): what follows the last "/".
basename(p) ==
  LET slashes == {i \in 1..Len(p) : p[i] = Ord("/")}
  IN  IF slashes = {} THEN p
      ELSE SubSeq(p, (CHOOSE i \in slashes : \A j \in slashes : j <= i) + 1, Len(p))

\* The dict read_metadata starts from (lines 41-53).
fresh_metadata(p) ==
  [k \in Keys |-> IF k = "Filename" THEN basename(p)
                  ELSE IF k = "File Path" THEN p ELSE <<>>]

\* The error dict had it held the path and the error alone.
error_metadata_bare(p, e) ==
  [k \in {"File Path", "Error"} |-> IF k = "Error" THEN e.msg ELSE p]

\* The dict the handler of read_wav_metadata returns (lines 601-614).
error_metadata(p, e) ==
  [k \in Keys \cup {"Error"} |->
     IF k = "Filename" THEN basename(p)
     ELSE IF k = "File Path" THEN p
     ELSE IF k = "Error" THEN e.msg ELSE <<>>]

Returned(rec) == [kind |-> "returned", rec |-> rec]
Raised(e) == [kind |-> "raised", exc |-> e]

\* One call looked at alone: nothing of the process around it.
NoProcess ==
  /\ disk = <<>>
  /\ cache = <<>>
  /\ heap = <<>>
  /\ all_files = 0
  /\ others = 0
  /\ changes = 0
  /\ calls = 0
  /\ original = <<>>
  /\ made = <<>>
  /\ prev = <<>>
  /\ since = <<>>
  /\ last = <<>>

(* The state of the editor window's undo machinery and of its loader       *)
(* thread (src/app.py).                                                    *)
(*   commands    BatchCommand.commands: the sub-commands, each with what   *)
(*               its execute() gives; under the undo stack, every command  *)
(*               handed to push so far, with what its most recent          *)
(*               execute()/redo() gave                                     *)
(*   trace       the calls made on the sub-commands of the batch, in order *)
(*   undo_stack  UndoRedoStack.undo_stack (indices into commands)          *)
(*   redo_stack  UndoRedoStack.redo_stack                                  *)
(*   file_paths  FileLoadWorker.file_paths, each with how its read ends    *)
(*   results     the list FileLoadWorker.run emits with finished           *)
(*   reported    the last operation and the value it returned              *)
VARIABLES
  commands,
  trace,
  undo_stack,
  redo_stack,
  file_paths,
  results,
  reported

avars == << commands, trace, undo_stack, redo_stack, file_paths, results, reported >>

(* No editor window: the reader and the process specifications leave the   *)
(* undo machinery and the loader thread idle.                               *)
NoApp ==
  /\ commands = <<>>
  /\ trace = <<>>
  /\ undo_stack = <<>>
  /\ redo_stack = <<>>
  /\ file_paths = <<>>
  /\ results = <<>>
  /\ reported = <<>>

Init ==
  /\ file_path \in Paths
  /\ debug \in BOOLEAN
  /\ file \in FileStates
  /\ pc = "call"
  /\ f_pos = 0
  /\ metadata = <<>>
  /\ tries = <<>>
  /\ resume = "call"
  /\ hdrs = <<>>
  /\ caught = <<>>
  /\ ret = [kind |-> "running"]
  /\ NoProcess
  /\ NoApp

\* An exception reaches the try statement of read_wav_metadata (line 596):
\* the handler returns the error dict, or the exception leaves the call.
raise_to_top(e) ==
  /\ pc' = "done"
  /\ IF CaughtBy(<<"read_wav_metadata">>, e) = "read_wav_metadata"
     THEN /\ ret' = Returned(error_metadata(file_path, e))
          /\ caught' = Append(caught, [handler |-> "read_wav_metadata", exc |-> e.type,
                                       metadata |-> metadata])
     ELSE /\ ret' = Raised(e)
          /\ caught' = caught

\* precondition without the check of os.path.exists.
precondition_no_exists(f, p) ==
  IF ~f.readable
  THEN Exc("PermissionError",
           B(<<"C","a","n","n","o","t"," ","r","e","a","d"," ","f","i","l","e",":"," ">>) \o p)
  ELSE IF Len(f.data) < 44
  THEN Exc("ValueError",
           B(<<"F","i","l","e"," ","t","o","o"," ","s","m","a","l","l"," ","t","o"," ","b","e"," ",
               "a"," ","v","a","l","i","d"," ","W","A","V"," ","f","i","l","e",":"," ">>) \o p)
  ELSE Exc("none", <<>>)

\* precondition without the check of os.path.getsize.
precondition_no_size(f, p) ==
  IF ~f.exists
  THEN Exc("FileNotFoundError",
           B(<<"F","i","l","e"," ","n","o","t"," ","f","o","u","n","d",":"," ">>) \o p)
  ELSE IF ~f.readable
  THEN Exc("PermissionError",
           B(<<"C","a","n","n","o","t"," ","r","e","a","d"," ","f","i","l","e",":"," ">>) \o p)
  ELSE Exc("none", <<>>)

\* precondition with the size checked before os.access.
precondition_size_first(f, p) ==
  IF ~f.exists
  THEN Exc("FileNotFoundError",
           B(<<"F","i","l","e"," ","n","o","t"," ","f","o","u","n","d",":"," ">>) \o p)
  ELSE IF Len(f.data) < 44
  THEN Exc("ValueError",
           B(<<"F","i","l","e"," ","t","o","o"," ","s","m","a","l","l"," ","t","o"," ","b","e"," ",
               "a"," ","v","a","l","i","d"," ","W","A","V"," ","f","i","l","e",":"," ">>) \o p)
  ELSE IF ~f.readable
  THEN Exc("PermissionError",
           B(<<"C","a","n","n","o","t"," ","r","e","a","d"," ","f","i","l","e",":"," ">>) \o p)
  ELSE Exc("none", <<>>)

\* The precondition the call fails, as the exception it raises, or "none"
\* (lines 581-591).
precondition(f, p) ==
  IF ~f.exists
  THEN Exc("FileNotFoundError",
           B(<<"F","i","l","e"," ","n","o","t"," ","f","o","u","n","d",":"," ">>) \o p)
  ELSE IF ~f.readable
  THEN Exc("PermissionError",
           B(<<"C","a","n","n","o","t"," ","r","e","a","d"," ","f","i","l","e",":"," ">>) \o p)
  ELSE IF Len(f.data) < MinWavSize
  THEN Exc("ValueError",
           B(<<"F","i","l","e"," ","t","o","o"," ","s","m","a","l","l"," ","t","o"," ","b","e"," ",
               "a"," ","v","a","l","i","d"," ","W","A","V"," ","f","i","l","e",":"," ">>) \o p)
  ELSE Exc("none", <<>>)

\* read_wav_metadata, lines 580-591: the three checks.
read_wav_metadata_checks ==
  /\ pc = "call"
  /\ LET e == precondition(file, file_path)
     IN  IF e.type = "none"
         THEN /\ pc' = "construct"
              /\ UNCHANGED << ret, caught >>
         ELSE raise_to_top(e)
  /\ UNCHANGED << pvars, avars >>
  /\ UNCHANGED << file_path, debug, file, f_pos, metadata, tries, resume, hdrs >>

\* Line 594: WavMetadata(file_path, debug), whose WavInfoReader(wav_path)
\* raises or gives a reader.
WavMetadata_init ==
  /\ pc = "construct"
  /\ \/ /\ pc' = "read_metadata"
        /\ UNCHANGED << ret, caught >>
     \/ \E msg \in ReaderErrors : raise_to_top(Exc("WavInfoError", msg))
  /\ UNCHANGED << pvars, avars >>
  /\ UNCHANGED << file_path, debug, file, f_pos, metadata, tries, resume, hdrs >>

\* read_metadata_begin had the walker not compared the two magic tokens.
read_metadata_begin_unchecked ==
  /\ pc = "read_metadata"
  /\ metadata' = fresh_metadata(file_path)
  /\ pc' = "walk"
  /\ f_pos' = 12
  /\ UNCHANGED << pvars, avars >>
  /\ UNCHANGED << file_path, debug, file, tries, resume, hdrs, caught, ret >>

\* read_metadata, lines 41-61, and _dump_all_wav_chunks, lines 232-247: the
\* fresh dict, then the RIFF and WAVE checks of the walker.
read_metadata_begin ==
  /\ pc = "read_metadata"
  /\ metadata' = fresh_metadata(file_path)
  /\ IF Slice(file.data, 0, 4) # ID_RIFF \/ Slice(file.data, 8, 12) # ID_WAVE
     THEN /\ pc' = "lib_bext"
          /\ f_pos' = f_pos
     ELSE /\ pc' = "walk"
          /\ f_pos' = 12
  /\ UNCHANGED << pvars, avars >>
  /\ UNCHANGED << file_path, debug, file, tries, resume, hdrs, caught, ret >>

\* HandlerEffect had _process_ixml_chunk no handler of its own around
\* ET.fromstring: the walker's handler ends the walk.
HandlerEffect_parse_breaks(h) ==
  CASE h \in {"ixml_parse", "ixml_chunk", "chunk", "dump_all", "direct"} -> "break"
    [] h \in {"to_dict", "lib_parse", "lib_xml", "standard"} -> "continue"
    [] OTHER -> "top"

\* HandlerEffect had the handlers of lines 169 and 225 raised again.
HandlerEffect_reraise(h) ==
  CASE h \in {"ixml_parse", "ixml_chunk", "lib_parse", "lib_xml"} -> "continue"
    [] h \in {"chunk", "dump_all", "direct"} -> "break"
    [] OTHER -> "top"

\* What becomes of the call when a handler has caught an exception: the
\* extractor's own handlers let the walker go on ("continue"), the walker's
\* and read_metadata's end the walk ("break"), the handlers of the reader
\* pass let read_metadata go on to its return ("continue").
HandlerEffect(h) ==
  CASE h \in {"ixml_parse", "ixml_chunk", "to_dict", "lib_parse", "lib_xml", "standard"}
         -> "continue"
    [] h \in {"chunk", "dump_all", "direct"} -> "break"
    [] OTHER -> "top"

\* The try statements around ET.fromstring of _process_ixml_chunk, by the
\* line of their except clause: 459, 464, 278, 281, 62, 596.
ixml_chunk_handlers ==
  <<"ixml_parse", "ixml_chunk", "chunk", "dump_all", "direct", "read_wav_metadata">>
\* Around ixml.to_dict(): 169, 225, 596.
to_dict_handlers == <<"to_dict", "standard", "read_wav_metadata">>
\* Around ET.fromstring of read_metadata: 221, 223, 225, 596.
lib_parse_handlers == <<"lib_parse", "lib_xml", "standard", "read_wav_metadata">>

\* dispatch had the walker compared the ID with b'BEXT'.
dispatch_upper_bext(chunk_id, chunk_data) ==
  IF chunk_id = B(<<"B","E","X","T">>)
  THEN [exc |-> "none", tries |-> process_bext_chunk(chunk_data)]
  ELSE IF chunk_id = ID_iXML THEN process_ixml_chunk(chunk_data)
  ELSE IF chunk_id = ID_INFO THEN [exc |-> "none", tries |-> process_info_chunk(chunk_data)]
  ELSE [exc |-> "skip", tries |-> <<>>]

\* The extractor the walker hands a chunk to (lines 264-272), applied to the
\* bytes file.read(size) gives it: [tries, exc].  "skip": no extractor.
dispatch(chunk_id, chunk_data) ==
  IF chunk_id = ID_bext THEN [exc |-> "none", tries |-> process_bext_chunk(chunk_data)]
  ELSE IF chunk_id = ID_iXML THEN process_ixml_chunk(chunk_data)
  ELSE IF chunk_id = ID_INFO THEN [exc |-> "none", tries |-> process_info_chunk(chunk_data)]
  ELSE [exc |-> "skip", tries |-> <<>>]

\* after_chunk had the skip been f.seek(chunk_size): a seek from the start of
\* the file.
after_chunk_seek_set(pos, chunk_id, chunk_size, n_read) ==
  (IF chunk_id \in {ID_bext, ID_iXML, ID_INFO} THEN pos + 8 + n_read
   ELSE chunk_size)
  + (IF chunk_size % 2 = 1 THEN 1 ELSE 0)

\* after_chunk without the pad byte of lines 275-276.
after_chunk_no_pad(pos, chunk_id, chunk_size, n_read) ==
  IF chunk_id \in {ID_bext, ID_iXML, ID_INFO} THEN pos + 8 + n_read
  ELSE pos + 8 + chunk_size

\* The position of f after the body of a chunk: an extractor has read the
\* bytes there are, f.seek(chunk_size, 1) moves by the size whatever the
\* file holds; then the pad byte (lines 272-276).
after_chunk(pos, chunk_id, chunk_size, n_read) ==
  (IF chunk_id \in {ID_bext, ID_iXML, ID_INFO} THEN pos + 8 + n_read
   ELSE pos + 8 + chunk_size)
  + (IF chunk_size % 2 = 1 THEN 1 ELSE 0)

\* One turn of the while loop of _dump_all_wav_chunks (lines 250-280).
dump_chunk ==
  /\ pc = "walk"
  /\ \E chunk_id \in {Slice(file.data, f_pos, f_pos + 4)},
        chunk_size_bytes \in {Slice(file.data, f_pos + 4, f_pos + 8)} :
       IF Len(chunk_id) < 4 \/ Len(chunk_size_bytes) < 4
       THEN /\ pc' = "lib_bext"
            /\ UNCHANGED << f_pos, tries, resume, hdrs, caught, ret >>
       ELSE
         \E chunk_size \in {unpack_I(chunk_size_bytes)} :
         \E chunk_data \in {Slice(file.data, f_pos + 8, f_pos + 8 + chunk_size)} :
         \E r \in {dispatch(chunk_id, chunk_data)} :
         \E e \in {Exc(r.exc, B(<<"s","y","n","t","a","x">>))} :
         \E h \in {CaughtBy(ixml_chunk_handlers, e)} :
         \E raised \in {r.exc \notin {"none", "skip"}} :
         \E note \in {[handler |-> h, exc |-> r.exc, metadata |-> metadata]} :
           /\ hdrs' = Append(hdrs, [off |-> f_pos, id |-> chunk_id, size |-> chunk_size])
           /\ IF ~raised \/ HandlerEffect(h) = "continue"
              THEN /\ f_pos' = after_chunk(f_pos, chunk_id, chunk_size, Len(chunk_data))
                   /\ tries' = r.tries
                   /\ resume' = "walk"
                   /\ pc' = IF Len(r.tries) = 0 THEN "walk" ELSE "apply"
                   /\ caught' = IF raised THEN Append(caught, note) ELSE caught
                   /\ ret' = ret
              ELSE IF HandlerEffect(h) = "break"
              THEN /\ pc' = "lib_bext"
                   /\ caught' = Append(caught, note)
                   /\ UNCHANGED << f_pos, tries, resume, ret >>
              ELSE /\ raise_to_top(e)
                   /\ UNCHANGED << f_pos, tries, resume >>
  /\ UNCHANGED << pvars, avars >>
  /\ UNCHANGED << file_path, debug, file, metadata >>

\* The try statements around f.read of the loop, by the line of their
\* except clause: 278, 281, 62, 596.
chunk_read_handlers == <<"chunk", "dump_all", "direct", "read_wav_metadata">>

\* A turn of the loop in which f.read raises OSError (lines 252-256): the
\* device fails.  The handler of line 278 prints and leaves the loop.
chunk_read_raises ==
  /\ pc = "walk"
  /\ \E e \in {Exc("OSError", B(<<"E","I","O">>))} :
     \E h \in {CaughtBy(chunk_read_handlers, e)} :
       IF HandlerEffect(h) = "break"
       THEN /\ pc' = "lib_bext"
            /\ caught' = Append(caught, [handler |-> h, exc |-> e.type,
                                         metadata |-> metadata])
            /\ ret' = ret
       ELSE raise_to_top(e)
  /\ UNCHANGED << pvars, avars >>
  /\ UNCHANGED << file_path, debug, file, f_pos, metadata, tries, resume, hdrs >>

\* One guarded assignment of the running extractor.
apply_try ==
  /\ pc = "apply"
  /\ metadata' = Fill(metadata, Head(tries).f, Head(tries).v)
  /\ tries' = Tail(tries)
  /\ pc' = IF Len(tries) = 1 THEN resume ELSE "apply"
  /\ UNCHANGED << pvars, avars >>
  /\ UNCHANGED << file_path, debug, file, f_pos, resume, hdrs, caught, ret >>

RECURSIVE fill_all(_, _)
\* The dict after the assignments of ts, in order.
fill_all(rec, ts) ==
  IF Len(ts) = 0 THEN rec
  ELSE The({fill_all(filled, Tail(ts)) : filled \in {Fill(rec, Head(ts).f, Head(ts).v)}})

\* read_metadata, lines 75-113: the pass over wav_info.bext.
lib_bext_pass ==
  /\ pc = "lib_bext"
  /\ \E bext \in BextViewsOf(file.data) :
       /\ tries' = lib_bext_tries(bext)
       /\ pc' = IF Len(tries') = 0 THEN "lib_ixml" ELSE "apply"
  /\ resume' = "lib_ixml"
  /\ UNCHANGED << pvars, avars >>
  /\ UNCHANGED << file_path, debug, file, f_pos, metadata, hdrs, caught, ret >>

\* read_metadata, lines 124-226: the pass over wav_info.ixml.
lib_ixml_pass ==
  /\ pc = "lib_ixml"
  /\ \E ixml \in IxmlViewsOf(file.data) :
     \E r \in {lib_ixml_tries(ixml)} :
     \E e \in {Exc(r.exc, B(<<"N","o","n","e","T","y","p","e">>))} :
     \E h \in {CaughtBy(IF r.exc = "to_dict" THEN to_dict_handlers
                         ELSE lib_parse_handlers, e)} :
     \E raised \in {r.exc # "none"} :
       IF ~raised \/ HandlerEffect(h) = "continue"
       THEN /\ tries' = r.tries
            /\ resume' = "return"
            /\ pc' = IF Len(r.tries) = 0 THEN "return" ELSE "apply"
            \* the assignments before the exception have been made by then
            /\ caught' = IF raised
                         THEN Append(caught, [handler |-> h, exc |-> r.exc,
                                              metadata |-> fill_all(metadata, r.tries)])
                         ELSE caught
            /\ ret' = ret
       ELSE /\ raise_to_top(e)
            /\ UNCHANGED << tries, resume >>
  /\ UNCHANGED << pvars, avars >>
  /\ UNCHANGED << file_path, debug, file, f_pos, metadata, hdrs >>

\* Line 228 and line 595: return metadata.
read_metadata_return ==
  /\ pc = "return"
  /\ ret' = Returned(metadata)
  /\ pc' = "done"
  /\ UNCHANGED << pvars, avars >>
  /\ UNCHANGED << file_path, debug, file, f_pos, metadata, tries, resume, hdrs, caught >>

Next ==
  \/ read_wav_metadata_checks
  \/ WavMetadata_init
  \/ read_metadata_begin
  \/ dump_chunk
  \/ chunk_read_raises
  \/ apply_try
  \/ lib_bext_pass
  \/ lib_ixml_pass
  \/ read_metadata_return

Spec == Init /\ [][Next]_<< vars, pvars, avars >>

(***************************************************************************)
(* Properties                                                              *)
(***************************************************************************)

\* Whether the text t contains the text sub.
Contains(t, sub) ==
  \E i \in 1..(Len(t) - Len(sub) + 1) : SubSeq(t, i, i + Len(sub) - 1) = sub

\* A file of at least 44 bytes that begins with the RIFF/WAVE preamble.
RiffWave(d) ==
  Len(d) >= MinWavSize /\ Slice(d, 0, 4) = ID_RIFF /\ Slice(d, 8, 12) = ID_WAVE

\* The call has returned a record; with HasError, one that holds Error.
HasReturned == pc = "done" /\ ret.kind = "returned"
HasError == HasReturned /\ "Error" \in DOMAIN ret.rec

\* The walk over the chunks went to its end: no handler cut it short.
WalkComplete ==
  \A n \in DOMAIN caught :
    caught[n].handler \notin {"chunk", "dump_all", "direct", "read_wav_metadata"}

\* C1: for every file of at least 44 bytes that begins with RIFF/WAVE,
\* whatever chunks follow, no exception leaves read_wav_metadata: the call
\* ends by returning a record.
C1_ReadNeverRaises ==
  (file.exists /\ RiffWave(file.data)) =>
    /\ ret.kind # "raised"
    /\ pc = "done" => ret.kind = "returned"

\* A read has returned after it walked a chunk whose declared size runs past
\* the end of the file.
C1_Witness ==
  /\ HasReturned /\ RiffWave(file.data)
  /\ \E i \in DOMAIN hdrs : hdrs[i].off + 8 + hdrs[i].size > Len(file.data)

\* C2: first-found-wins: within one read, a field that has become non-empty
\* keeps its value in every later step.
C2_FirstFoundWins ==
  [][\A f \in Fields :
       (metadata # <<>> /\ Truthy(metadata[f])) => metadata'[f] = metadata[f]]_vars

\* A read has returned Scene 1 from the combined pattern of a bext chunk whose
\* label pattern gives 7 and which an iXML chunk with SCENE 5 follows.
C2_Witness ==
  /\ HasReturned /\ ~HasError
  /\ file.data = Riff(ID_RIFF, ID_WAVE, FmtChunk \o BextST \o IxmlScene \o DataChunk)
  /\ ret.rec["Scene"] = B(<<"1">>)

\* The Scene one chunk of the file gives a fresh record: what its extractor
\* finds in the bytes the walker reads for it.
chunk_scene(data, c) ==
  The({fill_all(EmptyFields,
                IF c.id = ID_bext THEN process_bext_chunk(payload)
                ELSE IF c.id = ID_iXML THEN process_ixml_chunk(payload).tries
                ELSE <<>>)["Scene"] :
       payload \in {Slice(data, c.off + 8, c.off + 8 + c.size)}})

\* The scenes the chunks of the file give, in file order.
chunk_scenes(data) ==
  The({[n \in DOMAIN cs |-> [id |-> cs[n].id, scene |-> chunk_scene(data, cs[n])]] :
       cs \in {riff_chunks(data, 12)}})

\* Chunk i is a bext chunk and chunk j an iXML chunk, with different scenes.
Conflict(sc, i, j) ==
  /\ sc[i].id = ID_bext /\ sc[j].id = ID_iXML
  /\ sc[i].scene # <<>> /\ sc[j].scene # <<>> /\ sc[i].scene # sc[j].scene

\* C3 as stated: when a bext chunk and an iXML chunk give different scenes,
\* in whichever order, the Scene of the returned record is the one of the bext
\* chunk (here of a read that returns without Error after a whole walk).
C3_BextAlwaysWins ==
  (HasReturned /\ ~HasError /\ WalkComplete /\ RiffWave(file.data)) =>
    \A sc \in {chunk_scenes(file.data)} :
      \A i, j \in DOMAIN sc :
        Conflict(sc, i, j) => ret.rec["Scene"] = sc[i].scene

\* C3 as amended: when a bext chunk and an iXML chunk give different scenes,
\* a read that returns without Error and whose walk went to its end has the
\* Scene of the first chunk of the file that gives one: the bext chunk's when
\* it comes before the iXML chunk, the iXML chunk's when that comes first.
C3_FirstChunkWins ==
  (HasReturned /\ ~HasError /\ WalkComplete /\ RiffWave(file.data)) =>
    \A sc \in {chunk_scenes(file.data)} :
      \A i, j \in DOMAIN sc :
        Conflict(sc, i, j) =>
          ret.rec["Scene"] = sc[Min({n \in DOMAIN sc : sc[n].scene # <<>>})].scene

\* A read has returned the Scene of a bext chunk that comes before an iXML
\* chunk with another scene.
C3_Witness ==
  /\ HasReturned /\ ~HasError /\ WalkComplete /\ RiffWave(file.data)
  /\ \E sc \in {chunk_scenes(file.data)} :
       \E i, j \in DOMAIN sc :
         Conflict(sc, i, j) /\ i < j /\ ret.rec["Scene"] = sc[i].scene

\* C4: reading a path that does not exist returns a record whose Error
\* contains "File not found".
C4_FileNotFound ==
  (pc = "done" /\ ~file.exists) =>
    /\ ret.kind = "returned"
    /\ "Error" \in DOMAIN ret.rec
    /\ Contains(ret.rec["Error"], B(<<"F","i","l","e"," ","n","o","t"," ","f","o","u","n","d">>))

\* A read of a path that does not exist has ended.
C4_Witness == pc = "done" /\ ~file.exists /\ HasError

\* C5: reading an existing, readable file of fewer than 44 bytes returns a
\* record whose Error contains "File too small", and the read neither
\* builds a reader nor walks a chunk.
C5_FileTooSmall ==
  (file.exists /\ file.readable /\ Len(file.data) < MinWavSize) =>
    /\ pc \in {"call", "done"}
    /\ hdrs = <<>> /\ metadata = <<>>
    /\ pc = "done" =>
         /\ ret.kind = "returned"
         /\ "Error" \in DOMAIN ret.rec
         /\ Contains(ret.rec["Error"],
                     B(<<"F","i","l","e"," ","t","o","o"," ","s","m","a","l","l">>))

\* A read of a readable file of 0 bytes has ended.
C5_Witness ==
  pc = "done" /\ file.exists /\ file.readable /\ file.data = <<>> /\ HasError

ErrNotFound == B(<<"F","i","l","e"," ","n","o","t"," ","f","o","u","n","d">>)
ErrCannotRead == B(<<"C","a","n","n","o","t"," ","r","e","a","d"," ","f","i","l","e">>)
ErrTooSmall == B(<<"F","i","l","e"," ","t","o","o"," ","s","m","a","l","l">>)

\* The Error of the returned record is the text of the check named by has
\* and of no other check.
ErrorIsOnly(has) ==
  /\ HasError
  /\ \A m \in {ErrNotFound, ErrCannotRead, ErrTooSmall} :
       Contains(ret.rec["Error"], m) <=> (m = has)

\* C6: the checks run in the order existence, readability, size, and the
\* first that fails alone decides the Error: a missing path reports "File
\* not found", an existing unreadable file the permission error even when it
\* is shorter than 44 bytes, a readable short file "File too small".
C6_CheckOrder ==
  pc = "done" =>
    /\ ~file.exists => ErrorIsOnly(ErrNotFound)
    /\ (file.exists /\ ~file.readable) => ErrorIsOnly(ErrCannotRead)
    /\ (file.exists /\ file.readable /\ Len(file.data) < MinWavSize)
         => ErrorIsOnly(ErrTooSmall)

\* A read of an unreadable file of 10 bytes has reported the permission error.
C6_Witness ==
  /\ pc = "done" /\ file.exists /\ ~file.readable /\ Len(file.data) < MinWavSize
  /\ ErrorIsOnly(ErrCannotRead)

\* A readable file of at least 44 bytes whose magic tokens are not RIFF and
\* WAVE.
InvalidContainer ==
  /\ file.exists /\ file.readable /\ Len(file.data) >= MinWavSize
  /\ (Slice(file.data, 0, 4) # ID_RIFF \/ Slice(file.data, 8, 12) # ID_WAVE)

CaughtAfterField(n) ==
  /\ caught[n].handler # "read_wav_metadata"
  /\ \E f \in Fields : Truthy(caught[n].metadata[f])

\* The returned record holds every field value found before exception n.
KeepsFields(n) ==
  \A f \in Fields : Truthy(caught[n].metadata[f]) => ret.rec[f] = caught[n].metadata[f]

IsStr(v) == v \in Seq(0..255)

\* The file has no bext, iXML or INFO chunk.
NoMetadataChunks(d) == \A id \in {ID_bext, ID_iXML, ID_INFO} : ~HasChunk(d, id)

\* C9: every returned record holds all of Filename, the nine fields and the
\* path, each a string; Filename is the basename of the path; for a WAV with
\* no bext, iXML or INFO chunk every one of the nine fields is empty.
C9_AllFieldsStrings ==
  HasReturned =>
    /\ Keys \subseteq DOMAIN ret.rec
    /\ \A k \in DOMAIN ret.rec : IsStr(ret.rec[k])
    /\ ret.rec["Filename"] = basename(file_path)
    /\ ret.rec["File Path"] = file_path
    /\ (RiffWave(file.data) /\ NoMetadataChunks(file.data))
         => \A f \in Fields : ret.rec[f] = <<>>

\* A read of a WAV without metadata chunks, at a path with a directory, has
\* returned without Error.
C9_Witness ==
  /\ HasReturned /\ ~HasError /\ Contains(file_path, B(<<"/">>))
  /\ RiffWave(file.data) /\ NoMetadataChunks(file.data)
  /\ ret.rec["Filename"] = B(<<"a",".","w">>)

RECURSIVE riff_offset(_, _)
\* Offset 12 plus, for every chunk of hs before the i-th, 8 + size + (size mod 2).
riff_offset(hs, i) ==
  IF i = 1 THEN 12
  ELSE riff_offset(hs, i - 1) + 8 + hs[i - 1].size + (hs[i - 1].size % 2)

\* The j-th header read follows an unknown chunk of odd size.
AfterOddUnknown(j) ==
  /\ j > 1 /\ hdrs[j - 1].size % 2 = 1
  /\ hdrs[j - 1].id \notin {ID_bext, ID_iXML, ID_INFO}

\* C10: the walker reads each header at offset 12 plus, for every earlier
\* chunk, 8 + size + (size mod 2), so the headers it reads are those of the
\* RIFF layout; a bext chunk after an unknown chunk of odd size is recognised,
\* and parsed: the assignments tried next are those of its payload.
C10_PadOffsets ==
  /\ \A i \in DOMAIN hdrs :
       /\ hdrs[i].off = riff_offset(hdrs, i)
       /\ hdrs[i].id = Slice(file.data, hdrs[i].off, hdrs[i].off + 4)
       /\ hdrs[i] = riff_chunks(file.data, 12)[i]
  /\ \A j \in DOMAIN hdrs :
       (AfterOddUnknown(j) /\ j = Len(hdrs) /\ hdrs[j].id = ID_bext
        /\ pc = "apply" /\ resume = "walk" /\ f_pos > hdrs[j].off)
         => \A full \in {process_bext_chunk(Slice(file.data, hdrs[j].off + 8,
                                                  hdrs[j].off + 8 + hdrs[j].size))} :
              \E k \in 0..Len(full) : tries = SubSeq(full, k + 1, Len(full))

\* The walker has read the header of a bext chunk after an unknown chunk of
\* odd size and the read has returned the scene of that chunk.
C10_Witness ==
  /\ HasReturned /\ ~HasError
  /\ \E j \in DOMAIN hdrs : AfterOddUnknown(j) /\ hdrs[j].id = ID_bext
  /\ ret.rec["Scene"] = B(<<"1">>)

\* What the INFO extractor makes of the payload of a LIST chunk: the items
\* after the form type INFO.
list_info_tries(chunk_data) ==
  IF Slice(chunk_data, 0, 4) = ID_INFO
  THEN process_info_chunk(Slice(chunk_data, 4, Len(chunk_data)))
  ELSE <<>>

\* The turn of the loop that has read the whole header of a chunk and has
\* gone on past its extractor.
ChunkTurn ==
  /\ pc = "walk"
  /\ f_pos + 8 <= Len(file.data)
  /\ pc' \in {"walk", "apply"}

\* C11: a chunk whose ID is bext, iXML, INFO or LIST is handed to its
\* extractor, whose assignments are the ones then tried; a chunk of any other
\* ID is skipped by its declared size and its pad byte and leaves the record
\* and the assignments to try as they were.
C11_DelegatedOrSkipped ==
  [][ChunkTurn =>
       \A id \in {Slice(file.data, f_pos, f_pos + 4)},
          size \in {unpack_I(Slice(file.data, f_pos + 4, f_pos + 8))} :
       \A data \in {Slice(file.data, f_pos + 8, f_pos + 8 + size)} :
         IF id = ID_bext THEN tries' = process_bext_chunk(data)
         ELSE IF id = ID_iXML THEN tries' = process_ixml_chunk(data).tries
         ELSE IF id = ID_INFO THEN tries' = process_info_chunk(data)
         ELSE IF id = ID_LIST THEN tries' = list_info_tries(data)
         ELSE /\ tries' = <<>>
              /\ metadata' = metadata
              /\ f_pos' = f_pos + 8 + size + (size % 2)]_vars

\* The call is inside the while loop of _dump_all_wav_chunks.
InWalk == pc = "walk" \/ (pc = "apply" /\ resume = "walk")

\* A turn of the loop on a whole header moves f on by 8 bytes or more, and
\* to the end of the file or past it when the declared size is larger than
\* the bytes left.
WalkAdvances ==
  ChunkTurn =>
    /\ f_pos' >= f_pos + 8
    /\ \A size \in {unpack_I(Slice(file.data, f_pos + 4, f_pos + 8))} :
         f_pos + 8 + size > Len(file.data) => f_pos' >= Len(file.data)

\* Where no exception is caught the loop is left only where fewer than 8
\* bytes are left, and then nothing is raised and the record is kept.
WalkEndsQuietly ==
  (pc = "walk" /\ pc' # "walk" /\ pc' # "apply" /\ caught' = caught) =>
    /\ f_pos + 8 > Len(file.data)
    /\ pc' = "lib_bext"
    /\ ret' = ret
    /\ metadata' = metadata
    /\ f_pos' = f_pos

\* C12: the chunk walk ends for every file.  Each turn of its loop moves on
\* by 8 bytes or more, so the headers read fit the file; a declared size
\* larger than the bytes left puts f at the end of the file; at the end of
\* the stream or before a header cut short the loop is left with nothing
\* raised, no Error set and the fields of earlier chunks kept; and the
\* assignments left to try in the loop are fewer with every step.
C12_WalkTerminates ==
  /\ [][WalkAdvances /\ WalkEndsQuietly]_vars
  /\ [][InWalk /\ pc = "apply" => Len(tries') < Len(tries)]_vars
  /\ [](hdrs # <<>> => 12 + 8 * Len(hdrs) <= Len(file.data))
  /\ [](pc = "lib_bext" /\ caught = <<>> => ret.kind = "running")

\* The loop has been left after the bext chunk of declared size 200, whose
\* four bytes gave Scene and Take.
C12_Witness ==
  /\ pc = "lib_bext"
  /\ caught = <<>>
  /\ hdrs # <<>>
  /\ hdrs[Len(hdrs)].size = 200
  /\ metadata["Scene"] = B(<<"3">>)
  /\ metadata["Take"] = B(<<"4">>)

(***************************************************************************)
(* The process: read_wav_metadata behind its lru_cache, its callers and    *)
(* the files                                                               *)
(***************************************************************************)

pack_H(n) == << n % 256, n \div 256 >>

unpack_H(b) == b[1] + 256 * b[2]

\* The fmt chunk of linear PCM.
fmt_chunk(samplerate, channels, bits) ==
  Chunk(ID_fmt, pack_H(1) \o pack_H(channels) \o pack_I(samplerate)
                \o pack_I(samplerate * channels * (bits \div 8))
                \o pack_H(channels * (bits \div 8)) \o pack_H(bits))

\* The fmt chunk of linear PCM at 8000 Hz.
FmtPcm(channels, bits) == fmt_chunk(8000, channels, bits)

\* 16-bit mono, the samples 1, -1, -32768 and 32767.
Wav16 == Riff(ID_RIFF, ID_WAVE,
              FmtPcm(1, 16) \o Chunk(ID_data, <<1, 0, 255, 255, 0, 128, 255, 127>>))
\* 8-bit stereo with a bext chunk before the samples; the data chunk ends
\* inside a frame.
Wav8Show == Riff(ID_RIFF, ID_WAVE,
                 FmtPcm(2, 8) \o BextShow \o Chunk(ID_data, <<128, 0, 255, 127, 9>>))
\* 16-bit stereo with an iXML chunk after the samples.
Wav16Scene == Riff(ID_RIFF, ID_WAVE,
                   FmtPcm(2, 16) \o Chunk(ID_data, <<0, 0, 1, 128>>) \o IxmlScene)

\* How WavInfoReader behaves on a file: it raises, or gives a reader with
\* these bext and ixml.
QuietLib == [raises |-> FALSE, msg |-> <<>>, bext |-> NoView, ixml |-> NoView]
RaisingLib == [raises |-> TRUE, msg |-> B(<<"b","a","d">>), bext |-> NoView, ixml |-> NoView]
TakeLib ==
  [raises |-> FALSE, msg |-> <<>>, ixml |-> NoView,
   bext |-> [kind |-> "object", attrs |-> [description |-> B(<<"S","3","T","4">>)]]]

NoFile == [exists |-> FALSE, readable |-> FALSE, data |-> <<>>, lib |-> QuietLib]
OnDisk(data, lib) == [exists |-> TRUE, readable |-> TRUE, data |-> data, lib |-> lib]

\* What may be at the path.
ProcFiles ==
  { NoFile, OnDisk(Wav16, RaisingLib), OnDisk(Wav8Show, TakeLib),
    OnDisk(Wav16Scene, QuietLib) }

TargetPath == B(<<"d","/","a",".","w">>)

RECURSIVE walk_fill(_, _, _)
RECURSIVE walk_chunk(_, _, _, _, _, _)
\* The dict after the loop of _dump_all_wav_chunks from offset pos on, where
\* no read fails.
walk_fill(rec, data, pos) ==
  IF pos + 8 > Len(data) THEN rec
  ELSE The({ walk_chunk(rec, data, pos, h.id, h.size,
                        Slice(data, pos + 8, pos + 8 + h.size)) :
             h \in {[id |-> Slice(data, pos, pos + 4),
                     size |-> unpack_I(Slice(data, pos + 4, pos + 8))]} })

walk_chunk(rec, data, pos, chunk_id, chunk_size, chunk_data) ==
  The({ walk_fill(fill_all(rec, r.tries), data,
                  after_chunk(pos, chunk_id, chunk_size, Len(chunk_data))) :
        r \in {dispatch(chunk_id, chunk_data)} })

\* read_result had the handler of line 596 put the traceback into Error when
\* debug is set.
read_result_debug_trace(p, d, f) ==
  The({ IF e.type # "none" \/ f.lib.raises
        THEN [rec |-> [error_metadata(p, IF e.type # "none" THEN e
                                         ELSE Exc("WavInfoError", f.lib.msg))
                       EXCEPT !["Error"] = IF d THEN B(<<"T","r","a","c","e">>) \o @ ELSE @],
              out |-> IF d THEN <<"traceback">> ELSE <<>>]
        ELSE [rec |-> fill_all(fill_all(IF RiffWave(f.data)
                                        THEN walk_fill(fresh_metadata(p), f.data, 12)
                                        ELSE fresh_metadata(p),
                                        lib_bext_tries(f.lib.bext)),
                               lib_ixml_tries(f.lib.ixml).tries),
              out |-> IF d THEN <<"Debugging: Reading metadata">> ELSE <<>>] :
        e \in {precondition(f, p)} })

\* The body of read_wav_metadata (lines 579-614) on the file f, where no
\* read of the file fails: the dict it returns and what debug has it print.
read_result(p, d, f) ==
  The({ IF e.type # "none" \/ f.lib.raises
        THEN [rec |-> error_metadata(p, IF e.type # "none" THEN e
                                        ELSE Exc("WavInfoError", f.lib.msg)),
              out |-> IF d THEN <<"traceback">> ELSE <<>>]
        ELSE [rec |-> fill_all(fill_all(IF RiffWave(f.data)
                                        THEN walk_fill(fresh_metadata(p), f.data, 12)
                                        ELSE fresh_metadata(p),
                                        lib_bext_tries(f.lib.bext)),
                               lib_ixml_tries(f.lib.ixml).tries),
              out |-> IF d THEN <<"Debugging: Reading metadata">> ELSE <<>>] :
        e \in {precondition(f, p)} })

\* functools.lru_cache(maxsize=128), line 577.
maxsize == 128

\* The argument lists the repository calls read_wav_metadata with, which are
\* the keys of the cache: (file_path) in app.py, (file_path, debug=False)
\* and (file_path, debug=True) in the tests.
CallForms == {"(path)", "(path, debug=False)", "(path, debug=True)"}
debug_of(form) == form = "(path, debug=True)"
\* The pairs (path, debug) the argument lists stand for.
Pairs == {"path, False", "path, True"}
pair_of(form) == IF debug_of(form) THEN "path, True" ELSE "path, False"

\* The other paths read, at most; they are read in runs.
MaxOthers == 129
\* The calls of the process and the changes of the file, at most.
MaxCalls == 4
OtherRuns == {1, maxsize - 1}

\* The key of the cache for a call: the path (0: the path of the model, n: the
\* n-th other path) and the argument list.
Key(path, form) == [path |-> path, form |-> form]

lru_find(c, key) == {i \in 1..Len(c) : c[i].key = key}
\* A hit makes the entry the most recently used.
lru_touch(c, i) == SubSeq(c, 1, i - 1) \o SubSeq(c, i + 1, Len(c)) \o << c[i] >>
\* lru_put with the oldest entry dropped one entry early.
lru_put_early(c, entry) ==
  IF Len(c) >= maxsize - 1 THEN Append(Tail(c), entry) ELSE Append(c, entry)
\* lru_put without a bound (maxsize=None).
lru_put_unbounded(c, entry) == Append(c, entry)
\* A miss stores the result; a full cache drops its least recently used entry.
lru_put(c, entry) ==
  IF Len(c) >= maxsize THEN Append(Tail(c), entry) ELSE Append(c, entry)

RECURSIVE lru_put_run(_, _, _)
\* n misses in a row, for the other paths first + 1 .. first + n: the first
\* half of them, then the rest.
lru_put_run(c, first, n) ==
  IF n = 0 THEN c
  ELSE IF n = 1 THEN lru_put(c, [key |-> Key(first + 1, "(path)"), obj |-> 0])
  ELSE The({ lru_put_run(half, first + (n \div 2), n - (n \div 2)) :
             half \in {lru_put_run(c, first, n \div 2)} })

ProcInit ==
  /\ disk \in [file : ProcFiles, bak : {NoFile}, temp : {NoFile}]
  /\ cache = <<>>
  /\ heap = <<>>
  /\ all_files = 0
  /\ others = 0
  /\ changes = 0
  /\ calls = 0
  /\ original = [written |-> FALSE]
  /\ made = <<>>
  /\ prev = [k \in CallForms \cup Pairs |-> 0]
  /\ since = [k \in CallForms |-> [forms |-> {}, others |-> 0]]
  /\ last = [op |-> "none"]
  /\ file_path = TargetPath
  /\ debug = FALSE
  /\ file = NoFile
  /\ pc = "process"
  /\ f_pos = 0
  /\ metadata = <<>>
  /\ tries = <<>>
  /\ resume = "process"
  /\ hdrs = <<>>
  /\ caught = <<>>
  /\ ret = [kind |-> "running"]
  /\ NoApp

\* One more call of the process or change of the file.
Called == calls < MaxCalls /\ calls' = calls + 1

\* dict[key] = value for the dict that is object obj of the heap h.
setitem(h, obj, key, value) ==
  [i \in 1..Len(h) |->
     IF i = obj THEN [k \in DOMAIN h[i] |-> IF k = key THEN value ELSE h[i][k]]
     ELSE h[i]]

\* A call read_wav_metadata(...) through the wrapper of lru_cache; the
\* loader then sets Filename in the dict it got (app.py, line 600) and the
\* editor keeps the dict in all_files.
cached_call(form, by) ==
  \E hits \in {lru_find(cache, Key(0, form))} :
  \E hit \in {hits # {}} :
  \E obj \in {IF hit THEN cache[The(hits)].obj ELSE Len(heap) + 1} :
  \E h1 \in {IF hit THEN heap
             ELSE Append(heap, read_result(file_path, debug_of(form), disk.file).rec)} :
  \E h2 \in {IF by = "loader"
             THEN setitem(h1, obj, "Filename", basename(file_path)) ELSE h1} :
    /\ heap' = h2
    /\ made' = IF hit THEN made ELSE Append(made, h1[obj])
    /\ cache' = IF hit THEN lru_touch(cache, The(hits))
                ELSE lru_put(cache, [key |-> Key(0, form), obj |-> obj])
    /\ all_files' = IF by = "loader" THEN obj ELSE all_files
    /\ prev' = [prev EXCEPT ![form] = obj, ![pair_of(form)] = obj]
    /\ since' = [k \in CallForms |->
                   IF k = form THEN [forms |-> {}, others |-> 0]
                   ELSE [since[k] EXCEPT !.forms = @ \cup {form}]]
    /\ last' = [op |-> "read", key |-> form, obj |-> obj, hit |-> hit, rec |-> h2[obj],
                was |-> prev[form], was_pair |-> prev[pair_of(form)],
                since |-> Cardinality(since[form].forms) + since[form].others]
    /\ UNCHANGED << disk, others, changes, original >>
    /\ Called

\* FileLoadWorker.run (app.py, lines 586-602) for the path, through
\* safe_read_metadata (line 637).
FileLoadWorker_run ==
  /\ pc = "process"
  /\ cached_call("(path)", "loader")
  /\ UNCHANGED << vars, avars >>

\* The calls of the tests: read_wav_metadata(path, debug=...).
read_wav_metadata_call ==
  /\ pc = "process"
  /\ \E form \in {"(path, debug=False)", "(path, debug=True)"} : cached_call(form, "test")
  /\ UNCHANGED << vars, avars >>

\* Reads of a run of paths not read before.
read_other_paths ==
  /\ pc = "process"
  /\ \E n \in OtherRuns :
       /\ others + n <= MaxOthers
       /\ cache' = lru_put_run(cache, others, n)
       /\ others' = others + n
       /\ since' = [k \in CallForms |-> [since[k] EXCEPT !.others = @ + n]]
  /\ last' = [op |-> "others"]
  /\ UNCHANGED << disk, heap, all_files, changes, original, made, prev >>
  /\ Called
  /\ UNCHANGED << vars, avars >>

\* The values the user types into a cell of the table.
EditFields == {"Show"}
EditValues == { B(<<"E">>) }

\* MetadataEditCommand.execute (app.py, lines 65-71) on the dict the editor
\* holds for the path.
MetadataEditCommand_execute ==
  /\ pc = "process"
  /\ all_files # 0
  /\ \E field \in EditFields, new_value \in EditValues :
       /\ heap[all_files][field] # new_value
       /\ heap' = setitem(heap, all_files, field, new_value)
  /\ last' = [op |-> "edit"]
  /\ UNCHANGED << disk, cache, all_files, others, changes, original, made, prev, since >>
  /\ Called
  /\ UNCHANGED << vars, avars >>

\* Something outside the process edits, creates or deletes the file.
file_changes ==
  /\ pc = "process"
  /\ Called
  /\ changes' = changes + 1
  /\ \E f \in ProcFiles \ {disk.file} : disk' = [disk EXCEPT !.file = f]
  /\ last' = [op |-> "file"]
  /\ UNCHANGED << cache, heap, all_files, others, original, made, prev, since >>
  /\ UNCHANGED << vars, avars >>


\* No caller has changed a dict it got.
Unedited == \A i \in 1..Len(heap) : heap[i] = made[i]

\* What a call with the argument list would return now.
would_return(form) ==
  IF lru_find(cache, Key(0, form)) # {}
  THEN heap[cache[The(lru_find(cache, Key(0, form)))].obj]
  ELSE read_result(file_path, debug_of(form), disk.file).rec

\* C13 as stated: a call returns what the call before it with the same
\* path and debug returned, whatever was done to the file and however many
\* other paths were read in between.
C13_SameResultAlways ==
  (last.op = "read" /\ last.was_pair # 0 /\ Unedited) => last.rec = made[last.was_pair]

\* C13: a call with the argument list of an earlier call is answered from the
\* cache with the very dict the earlier call returned, whatever was done to
\* the file in between, where fewer than maxsize other keys were used since
\* that call.
C13_SameResultWhileCached ==
  (last.op = "read" /\ last.was # 0 /\ last.since < maxsize) =>
    (last.hit /\ last.obj = last.was)

\* A call answered from the cache after the file was changed and maxsize - 1
\* other paths were read: its result is not what the file now gives.
C13_Witness ==
  /\ last.op = "read"
  /\ last.hit
  /\ last.since = maxsize - 1
  /\ changes = 1
  /\ last.rec # read_result(file_path, debug_of(last.key), disk.file).rec

\* C14: the dict a call returns is as read_wav_metadata made it: no change a
\* caller made to a dict returned before shows in it.
C14_FreshRecord ==
  last.op = "read" => last.rec = made[last.obj]

\* C15 as stated: at every point the calls with debug=True and debug=False
\* would return dicts that are equal.
C15_DebugSameAlways ==
  Unedited => would_return("(path, debug=True)") = would_return("(path, debug=False)")

\* C15: a call that is not answered from the cache returns the dict the
\* other value of debug gives for the file; and where neither argument list
\* is in the cache the two calls would return equal dicts.
C15_DebugSameUncached ==
  /\ (last.op = "read" /\ ~last.hit) =>
       last.rec = read_result(file_path, ~debug_of(last.key), disk.file).rec
  /\ (\A form \in CallForms : lru_find(cache, Key(0, form)) = {}) =>
       would_return("(path, debug=True)") = would_return("(path, debug=False)")

\* A call with debug=True that the cache did not answer and that returned an
\* error dict: the handler of line 596 has printed the traceback.
C15_Witness ==
  /\ last.op = "read"
  /\ ~last.hit
  /\ debug_of(last.key)
  /\ "Error" \in DOMAIN last.rec
  /\ read_result(file_path, TRUE, disk.file).out = <<"traceback">>

(***************************************************************************)
(* build_ixml_chunk and ET.tostring                                        *)
(***************************************************************************)

\* Element(tag) with text and children; text "" where ElementTree has None.
Element(tag, text, kids) == [tag |-> tag, text |-> text, kids |-> kids]

\* SubElementIf had build_ixml_chunk added the element whatever the value.
SubElementAlways(md, field, tag) ==
  << Element(tag, IF Truthy(md[field]) THEN md[field] ELSE <<>>, <<>>) >>

\* The element of a field: SubElement(parent, tag) with the value as its
\* text where the value is true, nothing otherwise.
SubElementIf(md, field, tag) ==
  IF Truthy(md[field]) THEN << Element(tag, md[field], <<>>) >> ELSE <<>>

\* The tree build_ixml_chunk builds (lines 534-571).
ixml_root(md) ==
  Element(B(<<"B","W","F","X","M","L">>), <<>>,
    << Element(B(<<"B","W","F","C","O","R","E">>), <<>>,
         SubElementIf(md, "Show", B(<<"B","W","F","_","S","H","O","W">>))
         \o SubElementIf(md, "Scene", B(<<"B","W","F","_","S","C","E","N","E">>))
         \o SubElementIf(md, "Take", B(<<"B","W","F","_","T","A","K","E">>))) >>
    \o SubElementIf(md, "Category", B(<<"C","A","T","E","G","O","R","Y">>))
    \o SubElementIf(md, "Subcategory", B(<<"S","U","B","C","A","T","E","G","O","R","Y">>))
    \o SubElementIf(md, "ixmlNote", B(<<"N","O","T","E">>))
    \o SubElementIf(md, "ixmlCircled", B(<<"C","I","R","C","L","E","D">>)))

\* _escape_cdata of ElementTree: & < > as references.
escape_cdata(t) ==
  Flat([i \in 1..Len(t) |->
          IF t[i] = Ord("&") THEN B(<<"&","a","m","p",";">>)
          ELSE IF t[i] = Ord("<") THEN B(<<"&","l","t",";">>)
          ELSE IF t[i] = Ord(">") THEN B(<<"&","g","t",";">>)
          ELSE << t[i] >>])

RECURSIVE ET_tostring(_)
\* ET.tostring(node, encoding="utf-8"): no declaration; an element without
\* text and children is written as <tag />.
ET_tostring(node) ==
  IF node.text = <<>> /\ node.kids = <<>>
  THEN B(<<"<">>) \o node.tag \o B(<<" ","/",">">>)
  ELSE B(<<"<">>) \o node.tag \o B(<<">">>) \o escape_cdata(node.text)
       \o Flat([i \in 1..Len(node.kids) |-> ET_tostring(node.kids[i])])
       \o B(<<"<","/">>) \o node.tag \o B(<<">">>)

\* The fields build_ixml_chunk looks up; a dict without one of them raises
\* KeyError.
ixml_chunk_fields ==
  {"Show", "Scene", "Take", "Category", "Subcategory", "ixmlNote", "ixmlCircled"}

\* build_ixml_chunk(metadata), lines 531-574: the bytes it returns.
build_ixml_chunk(md) ==
  IF ixml_chunk_fields \subseteq DOMAIN md
  THEN [exc |-> "none", chunk |-> ET_tostring(ixml_root(md))]
  ELSE [exc |-> "KeyError", chunk |-> <<>>]

\* The values of a field of the dict handed to build_ixml_chunk.
IxmlValues == { <<>>, B(<<"7">>), B(<<"a","<","&",">"," ">>) }

\* build_ixml_chunk called on a dict of the editor.
BuildInit ==
  /\ metadata \in { [k \in Keys |-> IF k \in ixml_chunk_fields THEN m[k]
                                     ELSE IF k = "File Path" THEN TargetPath
                                     ELSE IF k = "Filename" THEN basename(TargetPath)
                                     ELSE <<>>] :
                    m \in [ixml_chunk_fields -> IxmlValues] }
  /\ pc = "build"
  /\ ret = [kind |-> "running"]
  /\ file_path = TargetPath
  /\ debug = FALSE
  /\ file = NoFile
  /\ f_pos = 0
  /\ tries = <<>>
  /\ resume = "build"
  /\ hdrs = <<>>
  /\ caught = <<>>
  /\ NoProcess
  /\ NoApp

build_ixml_chunk_call ==
  /\ pc = "build"
  /\ \E r \in {build_ixml_chunk(metadata)} :
       ret' = IF r.exc = "none" THEN Returned(r.chunk) ELSE Raised(Exc(r.exc, <<>>))
  /\ pc' = "built"
  /\ UNCHANGED << pvars, avars >>
  /\ UNCHANGED << file_path, debug, file, f_pos, metadata, tries, resume, hdrs, caught >>

BuildNext == build_ixml_chunk_call

BuildSpec == BuildInit /\ [][BuildNext]_<< vars, pvars, avars >>

\* The tag of each field and whether its element is a child of BWFCORE.
ixml_tag_of ==
  [f \in ixml_chunk_fields |->
     CASE f = "Show" -> [core |-> TRUE, tag |-> B(<<"B","W","F","_","S","H","O","W">>)]
       [] f = "Scene" -> [core |-> TRUE, tag |-> B(<<"B","W","F","_","S","C","E","N","E">>)]
       [] f = "Take" -> [core |-> TRUE, tag |-> B(<<"B","W","F","_","T","A","K","E">>)]
       [] f = "Category" -> [core |-> FALSE, tag |-> B(<<"C","A","T","E","G","O","R","Y">>)]
       [] f = "Subcategory" ->
            [core |-> FALSE, tag |-> B(<<"S","U","B","C","A","T","E","G","O","R","Y">>)]
       [] f = "ixmlNote" -> [core |-> FALSE, tag |-> B(<<"N","O","T","E">>)]
       [] f = "ixmlCircled" -> [core |-> FALSE, tag |-> B(<<"C","I","R","C","L","E","D">>)]]

\* What the bytes b hold, read back by ElementTree, against the dict m: the
\* root BWFXML with one BWFCORE; the element of each field under its parent
\* exactly where the field is not empty, with the value as its text; and no
\* other element.
EmitsExactly(b, m) ==
  \A x \in {ET_fromstring(b)} :
    /\ x.ok
    /\ x.root.tag = B(<<"B","W","F","X","M","L">>)
    /\ \A cores \in {WithTag(x.root.kids, B(<<"B","W","F","C","O","R","E">>))} :
         /\ Len(cores) = 1
         /\ \A f \in ixml_chunk_fields :
            \A found \in {WithTag(IF ixml_tag_of[f].core THEN cores[1].kids
                                  ELSE x.root.kids, ixml_tag_of[f].tag)} :
              /\ Len(found) = (IF m[f] # <<>> THEN 1 ELSE 0)
              /\ m[f] # <<>> => found[1].text = m[f] /\ found[1].kids = <<>>
         /\ Len(cores[1].kids)
              = Cardinality({f \in ixml_chunk_fields : ixml_tag_of[f].core /\ m[f] # <<>>})
         /\ Len(x.root.kids)
              = 1 + Cardinality({f \in ixml_chunk_fields :
                                   ~ixml_tag_of[f].core /\ m[f] # <<>>})

\* C20: the bytes build_ixml_chunk returns hold BWF_SHOW, BWF_SCENE and
\* BWF_TAKE under BWFCORE and CATEGORY, SUBCATEGORY, NOTE and CIRCLED under
\* the root, each exactly when its field is not empty and with the value of
\* the field as its text, and no element for an empty field.
C20_EmitsNonEmptyFields ==
  pc = "built" => (ret.kind = "returned" /\ EmitsExactly(ret.rec, metadata))

\* A dict with Show, Take and ixmlNote set, one of them to text that needs
\* references, and the four other fields empty.
C20_Witness ==
  /\ pc = "built"
  /\ ret.kind = "returned"
  /\ metadata["Show"] = B(<<"a","<","&",">"," ">>)
  /\ metadata["Take"] = B(<<"7">>)
  /\ metadata["ixmlNote"] = B(<<"7">>)
  /\ \A f \in {"Scene", "Category", "Subcategory", "ixmlCircled"} : metadata[f] = <<>>

(***************************************************************************)
(* write_wav_metadata, with soundfile as far as linear PCM goes            *)
(***************************************************************************)

\* The value of sample k (1-based) of width bits in the bytes of a data
\* chunk: unsigned with offset 128 at 8 bits, signed little-endian at 16.
pcm_sample(bytes, k, bits) ==
  IF bits = 8 THEN bytes[k] - 128
  ELSE The({ IF u >= 32768 THEN u - 65536 ELSE u :
             u \in {bytes[2 * k - 1] + 256 * bytes[2 * k]} })

\* The bytes of the sample value v at width bits.
pcm_bytes(v, bits) ==
  IF bits = 8 THEN << v + 128 >>
  ELSE The({ << u % 256, u \div 256 >> : u \in {IF v < 0 THEN v + 65536 ELSE v} })

SfFail == [ok |-> FALSE]

\* What sf.SoundFile(path, 'r') gives with read(), samplerate, channels,
\* format and subtype (lines 634-640): the whole frames of the first data
\* chunk as numbers num / den between -1 and 1.  It raises where there is no
\* file, no RIFF/WAVE container, no fmt or data chunk, or a sample format
\* other than 8-bit or 16-bit linear PCM.
sf_read(f) ==
  IF ~(f.exists /\ f.readable /\ Slice(f.data, 0, 4) = ID_RIFF /\ Slice(f.data, 8, 12) = ID_WAVE)
  THEN SfFail
  ELSE
    The({ The({ IF fmts = {} \/ dats = {} THEN SfFail
                ELSE The({ IF Len(fm) < 16 \/ unpack_H(Slice(fm, 0, 2)) # 1
                              \/ unpack_H(Slice(fm, 14, 16)) \notin {8, 16}
                              \/ unpack_H(Slice(fm, 2, 4)) = 0
                           THEN SfFail
                           ELSE The({ [ok |-> TRUE,
                                       samplerate |-> unpack_I(Slice(fm, 4, 8)),
                                       channels |-> unpack_H(Slice(fm, 2, 4)),
                                       format |-> "WAV",
                                       subtype |-> IF bits = 8 THEN "PCM_U8" ELSE "PCM_16",
                                       audio_data |->
                                         [k \in 1..((Len(da) \div (unpack_H(Slice(fm, 2, 4)) * (bits \div 8)))
                                                    * unpack_H(Slice(fm, 2, 4))) |->
                                            [num |-> pcm_sample(da, k, bits),
                                             den |-> IF bits = 8 THEN 128 ELSE 32768]]] :
                                      bits \in {unpack_H(Slice(fm, 14, 16))} }) :
                           fm \in {Slice(f.data, cs[Min(fmts)].off + 8,
                                         cs[Min(fmts)].off + 8 + cs[Min(fmts)].size)},
                           da \in {Slice(f.data, cs[Min(dats)].off + 8,
                                         cs[Min(dats)].off + 8 + cs[Min(dats)].size)} }) :
                fmts \in {{i \in 1..Len(cs) : cs[i].id = ID_fmt}},
                dats \in {{i \in 1..Len(cs) : cs[i].id = ID_data}} }) :
          cs \in {riff_chunks(f.data, 12)} })

\* The width of the samples of a subtype.
subtype_bits(subtype) == IF subtype = "PCM_U8" THEN 8 ELSE 16

\* The sample value written for the number x at width bits: scaled by the
\* factor it was read with and clipped to the range of the width (SoundFile
\* opens every file with clipping on).
pcm_value(x, bits) ==
  The({ IF v > full - 1 THEN full - 1 ELSE IF v < -full THEN -full ELSE v :
        full \in {IF bits = 8 THEN 128 ELSE 32768},
        v \in {(x.num * (IF bits = 8 THEN 128 ELSE 32768)) \div x.den} })

\* sf_write had the call of sf.SoundFile left subtype to its default.
sf_write_default_subtype(audio_data, samplerate, channels, format, subtype) ==
  Riff(ID_RIFF, ID_WAVE,
       fmt_chunk(samplerate, channels, 16)
       \o Chunk(ID_data, Flat([k \in 1..Len(audio_data) |->
                                 pcm_bytes(pcm_value(audio_data[k], 16), 16)])))

\* The bytes sf.SoundFile(path, 'w', samplerate, channels, format, subtype)
\* holds after write(audio_data) (lines 642-648): a fmt and a data chunk.
sf_write(audio_data, samplerate, channels, format, subtype) ==
  Riff(ID_RIFF, ID_WAVE,
       fmt_chunk(samplerate, channels, subtype_bits(subtype))
       \o Chunk(ID_data, Flat([k \in 1..Len(audio_data) |->
                                 pcm_bytes(pcm_value(audio_data[k], subtype_bits(subtype)),
                                           subtype_bits(subtype))])))

\* The dicts handed to write_wav_metadata: one with values, the blank one,
\* and one that lacks fields.
EditedRecord ==
  [fresh_metadata(TargetPath) EXCEPT !["Scene"] = B(<<"5">>), !["ixmlNote"] = B(<<"n">>),
                                     !["Show"] = B(<<"E">>)]
WriteRecords ==
  { EditedRecord, fresh_metadata(TargetPath), [k \in {"Show"} |-> B(<<"E">>)] }

\* The step at which the system fails the call, if at one: making the temp
\* file, writing the temp file, copying to the backup, copying to the path.
WriteFaults == {"none", "temp", "encode", "backup", "replace"}

\* The calls of write_wav_metadata: each dict where the system fails no
\* step, and the dict with values under each failure.
WriteInputs ==
  { [md |-> md, fault |-> "none"] : md \in WriteRecords }
  \cup { [md |-> EditedRecord, fault |-> fault] : fault \in WriteFaults }

\* The handler of line 683 had it raised again without the unlink.
write_handler_keeps_temp(d) == d

\* The handler of write_wav_metadata (lines 683-687): the temp file is
\* removed if it is there; the exception is raised again.
write_handler(d) == IF d.temp.exists THEN [d EXCEPT !.temp = NoFile] ELSE d

\* write_raised had the backup been made at the start of the call.
write_raised_backup_first(dd, step) ==
  [disk |-> write_handler([dd EXCEPT !.bak = IF dd.bak.exists THEN dd.bak ELSE dd.file]),
   ok |-> FALSE, step |-> step, created |-> TRUE]

\* The call raised at step, the files as dd at that moment.
write_raised(dd, step) ==
  [disk |-> write_handler(dd), ok |-> FALSE, step |-> step, created |-> TRUE]

\* The bytes had the temp file been given the iXML chunk before the copy.
copied_to_path_with_ixml(temp_data, ixml_string) ==
  Riff(ID_RIFF, ID_WAVE,
       Slice(temp_data, 12, Len(temp_data)) \o Chunk(ID_iXML, ixml_string))

\* The bytes shutil.copy2(temp_file_path, file_path) puts at the path (line
\* 675), ixml_string being what build_ixml_chunk returned (line 660).
copied_to_path(temp_data, ixml_string) == temp_data

\* write_backup_replace had the copy to the backup been made at every call.
write_backup_always(d2, ixml_string, fault) ==
  IF fault = "backup" THEN write_raised(d2, "backup")
  ELSE The({ IF fault = "replace" THEN write_raised(d3, "replace")
             ELSE [disk |-> [d3 EXCEPT !.file = OnDisk(copied_to_path(d3.temp.data, ixml_string),
                                                       QuietLib),
                                       !.temp = NoFile],
                   ok |-> TRUE, step |-> "return", created |-> TRUE] :
             d3 \in {[d2 EXCEPT !.bak = d2.file]} })

\* write_wav_metadata from the backup on (lines 669-681).
write_backup_replace(d2, ixml_string, fault) ==
  IF ~d2.bak.exists /\ fault = "backup" THEN write_raised(d2, "backup")
  ELSE The({ IF fault = "replace" THEN write_raised(d3, "replace")
             ELSE [disk |-> [d3 EXCEPT !.file = OnDisk(copied_to_path(d3.temp.data, ixml_string),
                                                       QuietLib),
                                       !.temp = NoFile],
                   ok |-> TRUE, step |-> "return", created |-> TRUE] :
             d3 \in {IF d2.bak.exists THEN d2 ELSE [d2 EXCEPT !.bak = d2.file]} })

\* write_wav_metadata(file_path, md) (lines 629-687) on the files d: the
\* files after it, whether it returned True, the step that raised.
write_result(d, md, fault) ==
  IF fault = "temp"
  THEN [disk |-> d, ok |-> FALSE, step |-> "temp", created |-> FALSE]
  ELSE
    The({ IF ~a.ok THEN write_raised(d1, "decode")
          ELSE IF fault = "encode"
          THEN write_raised([d1 EXCEPT !.temp = OnDisk(SubSeq(ID_RIFF, 1, 4), QuietLib)],
                            "encode")
          ELSE IF d.file.lib.raises THEN write_raised(
                 [d1 EXCEPT !.temp = OnDisk(sf_write(a.audio_data, a.samplerate, a.channels,
                                                     a.format, a.subtype), QuietLib)],
                 "reader")
          ELSE IF x.exc # "none" THEN write_raised(
                 [d1 EXCEPT !.temp = OnDisk(sf_write(a.audio_data, a.samplerate, a.channels,
                                                     a.format, a.subtype), QuietLib)],
                 "ixml")
          ELSE write_backup_replace(
                 [d1 EXCEPT !.temp = OnDisk(sf_write(a.audio_data, a.samplerate, a.channels,
                                                     a.format, a.subtype), QuietLib)],
                 x.chunk, fault) :
          d1 \in {[d EXCEPT !.temp = OnDisk(<<>>, QuietLib)]},
          a \in {sf_read(d.file)},
          x \in {build_ixml_chunk(md)} })

\* A call write_wav_metadata(file_path, md), as the save of app.py (line
\* 2406) makes it.
write_wav_metadata_call ==
  /\ pc = "process"
  /\ Called
  /\ \E in \in WriteInputs :
     \E w \in {write_result(disk, in.md, in.fault)} :
       /\ disk' = w.disk
       /\ last' = [op |-> "write", ok |-> w.ok, step |-> w.step, created |-> w.created,
                   md |-> in.md, before |-> disk]
       /\ original' = IF w.ok /\ ~original.written
                      THEN [written |-> TRUE, file |-> disk.file, bak |-> disk.bak]
                      ELSE original
  /\ UNCHANGED << cache, heap, all_files, others, changes, made, prev, since >>
  /\ UNCHANGED << vars, avars >>

ProcNext ==
  \/ FileLoadWorker_run
  \/ read_wav_metadata_call
  \/ read_other_paths
  \/ MetadataEditCommand_execute
  \/ file_changes
  \/ write_wav_metadata_call

ProcSpec == ProcInit /\ [][ProcNext]_<< vars, pvars, avars >>

\* A call of write_wav_metadata has returned True.
Written == last.op = "write" /\ last.ok

\* write_wav_metadata leaves a backup that exists as it is.
BackupKept ==
  (last.op = "write" /\ last.before.bak.exists) => disk.bak = last.before.bak

\* Where there is no backup, a call that returns True has copied the file to
\* the backup as the file was before the call.
BackupMade ==
  (Written /\ ~last.before.bak.exists) => disk.bak = last.before.file

\* C16 as stated: the backup is kept where there is one and made from the
\* file of before the call where there is none; so from the first call that
\* returned True on, the backup is the file as it was before that call.
C16_BackupOfFirstWrite ==
  /\ BackupKept
  /\ BackupMade
  /\ original.written => disk.bak = original.file

\* C16: the backup is kept where there is one and made from the file of
\* before the call where there is none; so from the first call that returned
\* True on, if that call found no backup, the backup is the file as it was
\* before that call.
C16_BackupWriteOnce ==
  /\ BackupKept
  /\ BackupMade
  /\ (original.written /\ ~original.bak.exists) => disk.bak = original.file

\* A second call that returned True: the backup is the file of before the
\* first call, not the file this call replaced.
C16_Witness ==
  /\ Written
  /\ last.before.bak.exists
  /\ original.written
  /\ disk.bak = original.file
  /\ disk.bak.data # last.before.file.data

\* C17: after a call of write_wav_metadata, returned or raised at whatever
\* step, there is no temp file.
C17_TempRemoved ==
  last.op = "write" => ~disk.temp.exists

\* A call that made its temp file and raised at the copy to the path.
C17_Witness ==
  /\ last.op = "write"
  /\ ~last.ok
  /\ last.created
  /\ last.step = "replace"
  /\ ~disk.temp.exists

\* C18: after a call that returned True the file is the audio of the file
\* of before, written anew, whatever the dict was; read without the cache it
\* gives no value of any field.
C18_AudioOnly ==
  Written =>
    /\ \A a \in {sf_read(last.before.file)} :
         a.ok /\ disk.file.data = sf_write(a.audio_data, a.samplerate, a.channels,
                                           a.format, a.subtype)
    /\ \A f \in Fields : read_result(file_path, FALSE, disk.file).rec[f] = <<>>

\* A call with the dict that has Show, Scene and ixmlNote has returned True
\* on the file with a bext chunk.
C18_Witness ==
  /\ Written
  /\ last.md = EditedRecord
  /\ last.before.file.data = Wav8Show
  /\ read_result(file_path, FALSE, last.before.file).rec["Show"] # <<>>

\* C19: after a call that returned True, soundfile reads from the file the
\* sample rate, channels, format, subtype and samples it read from the file
\* of before.
C19_AudioRoundTrip ==
  Written => \A a \in {sf_read(last.before.file)}, b \in {sf_read(disk.file)} :
               a.ok /\ b.ok /\ a = b

\* A call has returned True on the 8-bit stereo file, whose data chunk ends
\* inside a frame: one frame of two samples is read back.
C19_Witness ==
  /\ Written
  /\ last.before.file.data = Wav8Show
  /\ sf_read(disk.file).subtype = "PCM_U8"
  /\ sf_read(disk.file).channels = 2
  /\ Len(sf_read(disk.file).audio_data) = 4

(***************************************************************************)
(* One read of a file with an iXML or an INFO chunk, the reader's views    *)
(* given                                                                   *)
(***************************************************************************)

\* The most elements below the root of an iXML chunk, and the most items of
\* an INFO chunk.
MaxKids == 2
MaxItems == 3

\* The bytes of the element tag with the character data text.
XmlElem(tag, text) ==
  << Ord("<") >> \o tag \o << Ord(">") >> \o text
  \o << Ord("<"), Ord("/") >> \o tag \o << Ord(">") >>

XmlTags ==
  << B(<<"S","H","O","W">>), B(<<"P","R","O","G","R","A","M">>),
     B(<<"C","A","T","E","G","O","R","Y">>), B(<<"S","L","A","T","E">>) >>
XmlTexts == << <<>>, B(<<" ">>), B(<<"P"," ">>), B(<<"Q">>) >>

\* iXML chunks: a root with up to MaxKids elements, each one of XmlTags with
\* one of XmlTexts.
IxmlChunks ==
  { Chunk(ID_iXML,
          XmlElem(B(<<"R">>),
                  Flat([i \in 1..Len(k) |-> XmlElem(XmlTags[k[i].tag], XmlTexts[k[i].text])]))) :
      k \in UNION {[1..m -> [tag : 1..Len(XmlTags), text : 1..Len(XmlTexts)]] :
                     m \in 0..MaxKids} }

\* The items of an INFO chunk: an artist of length 0, a subject of odd
\* length, a comment of even length, a subject of length 0.
InfoItems ==
  << Chunk(B(<<"I","A","R","T">>), <<>>),
     Chunk(B(<<"I","S","B","J">>), B(<<"C","A","T",":","x">>)),
     Chunk(B(<<"I","C","M","T">>), B(<<"s","h","o","w"," ","Q">>) \o <<0>> \o B(<<"z">>)),
     Chunk(B(<<"I","S","B","J">>), <<>>) >>

InfoChunks ==
  { Chunk(ID_INFO, Flat([i \in 1..Len(k) |-> InfoItems[k[i]]])) :
      k \in UNION {[1..m -> 1..Len(InfoItems)] : m \in 0..MaxItems} }

\* The reader's views of a file with an iXML chunk: none, or an object with
\* attributes and to_dict.
IxmlLibs ==
  { [QuietLib EXCEPT !.ixml = v] : v \in {w \in IxmlViews : w.kind \in {"None", "object"}} }

ExtractFiles ==
  { OnDisk(Riff(ID_RIFF, ID_WAVE, FmtChunk \o c \o DataChunk), lib) :
      c \in IxmlChunks, lib \in IxmlLibs }
  \cup { OnDisk(Riff(ID_RIFF, ID_WAVE, FmtChunk \o c \o DataChunk), QuietLib) :
           c \in InfoChunks }

ExtractInit ==
  /\ file \in ExtractFiles
  /\ file_path = TargetPath
  /\ debug = FALSE
  /\ pc = "call"
  /\ ret = [kind |-> "running"]
  /\ f_pos = 0
  /\ metadata = <<>>
  /\ tries = <<>>
  /\ resume = "call"
  /\ hdrs = <<>>
  /\ caught = <<>>
  /\ NoProcess
  /\ NoApp

\* read_wav_metadata(file_path) from its call to its return.
read_wav_metadata_returns ==
  /\ pc = "call"
  /\ ret' = Returned(read_result(file_path, debug, file).rec)
  /\ pc' = "done"
  /\ UNCHANGED << pvars, avars >>
  /\ UNCHANGED << file_path, debug, file, f_pos, metadata, tries, resume, hdrs, caught >>

ExtractNext == read_wav_metadata_returns

ExtractSpec == ExtractInit /\ [][ExtractNext]_<< vars, pvars, avars >>

\* The payload of the first chunk of a file with the ID id.
PayloadOf(data, id) ==
  The({ Slice(data, c.off + 8, c.off + 8 + c.size) :
        c \in {cs[Min({i \in 1..Len(cs) : cs[i].id = id})] : cs \in {riff_chunks(data, 12)}} })

\* The value of the first assignment of ts for the field f that has one, or
\* None.
FirstTry(ts, f) ==
  The({ IF is = {} THEN None ELSE ts[Min(is)].v :
        is \in {{i \in 1..Len(ts) : ts[i].f = f /\ Truthy(ts[i].v)}} })

\* C21: where the reader's iXML object and the iXML chunk both give a field
\* of Category, Subcategory, ixmlNote, ixmlCircled a value and the values
\* differ, the record read_wav_metadata returns holds the object's value.
C21_StructuredViewFirst ==
  (pc = "done" /\ HasChunk(file.data, ID_iXML) /\ file.lib.ixml.kind = "object") =>
    \A f \in {"Category", "Subcategory", "ixmlNote", "ixmlCircled"} :
      \A s \in {FirstTry(lib_ixml_tries(file.lib.ixml).tries, f)},
         r \in {FirstTry(process_ixml_chunk(PayloadOf(file.data, ID_iXML)).tries, f)} :
        (s # None /\ r # None /\ s # r) => ret.rec[f] = s

RECURSIVE FirstNonBlank(_, _)
\* The stripped text of the first of paths whose element has text that is
\* not blank, or None.
FirstNonBlank(root, paths) ==
  IF Len(paths) = 0 THEN None
  ELSE The({ IF Len(found) > 0 /\ Strip(found[1].text) # <<>>
             THEN Strip(found[1].text)
             ELSE FirstNonBlank(root, Tail(paths)) :
             found \in {xml_findall(root, Head(paths))} })

\* The reader gives no iXML view and the file has an iXML chunk.
OnlyIxmlChunk ==
  pc = "done" /\ HasChunk(file.data, ID_iXML) /\ file.lib.ixml.kind = "None"

\* C22: read on a file whose iXML chunk is the one source: each field one
\* of whose tag paths has an element with text that is not blank holds the
\* stripped text of the first such path; a path whose element is missing,
\* empty or blank does not end the search.
C22_FirstNonBlankPath ==
  OnlyIxmlChunk =>
    \A x \in {ET_fromstring(PayloadOf(file.data, ID_iXML))} :
      x.ok => \A f \in DOMAIN ixml_paths :
                \A nb \in {FirstNonBlank(x.root, ixml_paths[f])} :
                  nb # None => ret.rec[f] = nb

\* The iXML chunk of the header h has a payload ET.fromstring does not
\* parse, or one without "<" and ">".
MalformedIxml(h) ==
  h.id = ID_iXML /\ ~ET_fromstring(Slice(file.data, h.off + 8, h.off + 8 + h.size)).ok

\* The file with the ID of every malformed iXML chunk the walker has read
\* replaced by an ID no extractor is for.
AsUnknown ==
  [k \in 1..Len(file.data) |->
     IF \E i \in 1..Len(hdrs) :
          MalformedIxml(hdrs[i]) /\ k \in (hdrs[i].off + 1)..(hdrs[i].off + 4)
     THEN ID_junk[k - The({hdrs[i].off : i \in {j \in 1..Len(hdrs) :
                                                  k \in (hdrs[j].off + 1)..(hdrs[j].off + 4)}})]
     ELSE file.data[k]]

\* The walk is over and nothing but ET.fromstring has raised in it.
WalkOverParseErrors ==
  /\ pc = "lib_bext"
  /\ RiffWave(file.data)
  /\ \A i \in 1..Len(caught) : caught[i].exc = "ParseError"

\* C23: a turn of the walker on a malformed iXML chunk changes no field and
\* the walk goes on; at the end of the walk the dict is the one the walk of
\* the same file gives with those chunks under an unknown ID.
C23_MalformedIxmlContained ==
  /\ [][(pc = "walk" /\ hdrs' # hdrs /\ MalformedIxml(hdrs'[Len(hdrs')]))
        => (metadata' = metadata /\ tries' = <<>> /\ pc' = "walk")]_vars
  /\ [](WalkOverParseErrors
        => metadata = walk_fill(fresh_metadata(file_path), AsUnknown, 12))

\* The walk is over on a file with a malformed iXML chunk and a bext chunk
\* after it, whose Scene the dict holds.
C23_Witness ==
  /\ WalkOverParseErrors
  /\ \E i, j \in 1..Len(hdrs) :
       i < j /\ MalformedIxml(hdrs[i]) /\ caught # <<>> /\ hdrs[j].id = ID_bext
  /\ metadata["Scene"] = B(<<"1">>)

RECURSIVE info_by_layout(_, _)
\* The assignments of the ISBJ and ICMT items of an INFO payload by the
\* layout of the outer walker: the item after one at offset pos with size n
\* starts at pos + 8 + n + (n mod 2); an item is visited if its header and
\* its n bytes lie within the payload.
info_by_layout(info_data, pos) ==
  IF pos + 8 > Len(info_data) THEN <<>>
  ELSE The({ IF pos + 8 + n > Len(info_data) THEN <<>>
             ELSE (IF Slice(info_data, pos, pos + 4)
                        \in {B(<<"I","S","B","J">>), B(<<"I","C","M","T">>)}
                   THEN info_item_tries(
                          Strip(Decode(UntilNul(Slice(info_data, pos + 8, pos + 8 + n)))))
                   ELSE <<>>)
                  \o info_by_layout(info_data, pos + 8 + n + (n % 2)) :
             n \in {unpack_I(Slice(info_data, pos + 4, pos + 8))} })

\* C24: read on a file whose INFO chunk is the one source returns the dict
\* with the assignments of every ISBJ and ICMT item that lies within the
\* payload, the items taken by the layout of the outer walker; an item of
\* length 0 or one that ends with the payload hides no item.
C24_InfoItemsByLayout ==
  (pc = "done" /\ HasChunk(file.data, ID_INFO)) =>
    /\ process_info_chunk(PayloadOf(file.data, ID_INFO))
         = info_by_layout(PayloadOf(file.data, ID_INFO), 0)
    /\ ret.rec = fill_all(fresh_metadata(file_path),
                          info_by_layout(PayloadOf(file.data, ID_INFO), 0))

\* A step that reads one key the cache does not hold.
OneMiss ==
  \/ last'.op = "read" /\ ~last'.hit
  \/ last'.op = "others" /\ others' = others + 1

\* C25: the cache holds 128 entries at most; a read of a key it does not
\* hold, when it is full, drops the entry used least recently and keeps
\* every other entry as it was; a read of a key that 128 or more other keys
\* were read after is not answered from the cache: it makes its record from
\* the file as it is.
C25_CacheBounded ==
  /\ [](Len(cache) <= maxsize)
  /\ [][(Len(cache) = maxsize /\ OneMiss)
        => /\ Len(cache') = maxsize
           /\ SubSeq(cache', 1, maxsize - 1) = Tail(cache)
           /\ lru_find(cache, cache'[maxsize].key) = {}]_pvars
  /\ []((last.op = "read" /\ last.was # 0 /\ last.since >= maxsize)
        => /\ ~last.hit
           /\ last.obj # last.was
           /\ last.rec = read_result(file_path, debug_of(last.key), disk.file).rec)

\* A key is read again after 128 other paths, the last of which found the
\* cache full: the cache does not hold the key and the file is read anew.
C25_Witness ==
  /\ last.op = "read"
  /\ last.was # 0
  /\ last.since = maxsize
  /\ ~last.hit
  /\ Len(cache) = maxsize
  /\ others = maxsize

\* The steps of write_wav_metadata before the copy to the backup: the temp
\* file, the decode, the encode to the temp file, WavMetadata(file_path),
\* build_ixml_chunk.
StepsBeforeBackup == {"temp", "decode", "encode", "reader", "ixml"}

\* C26: after a call of write_wav_metadata that raised at a step before the
\* copy to the backup, the file is byte for byte the file of before the call
\* and the backup is as it was: none has been made.
C26_FailedWriteKeepsFile ==
  (last.op = "write" /\ ~last.ok /\ last.step \in StepsBeforeBackup) =>
    /\ disk.file = last.before.file
    /\ disk.bak = last.before.bak

\* A call with a dict that lacks fields has raised in build_ixml_chunk, the
\* audio decoded and encoded to the temp file by then; there is no backup.
C26_Witness ==
  /\ last.op = "write"
  /\ ~last.ok
  /\ last.step = "ixml"
  /\ last.before.file.exists
  /\ ~disk.bak.exists
  /\ disk.file = last.before.file

\* C27: in every record read_wav_metadata returns, Slate and ixmlWildtrack
\* are the empty string.
C27_SlateWildtrackEmpty ==
  (pc = "done" /\ ret.kind = "returned") =>
    ret.rec["Slate"] = <<>> /\ ret.rec["ixmlWildtrack"] = <<>>

\* The record of a file whose iXML chunk holds the elements SLATE and
\* CATEGORY: the text of SLATE is in ixmlCircled, and Slate is empty.
C27_Witness ==
  /\ pc = "done"
  /\ ret.kind = "returned"
  /\ HasChunk(file.data, ID_iXML)
  /\ PayloadOf(file.data, ID_iXML)
       = XmlElem(B(<<"R">>), XmlElem(XmlTags[4], XmlTexts[4]) \o XmlElem(XmlTags[3], XmlTexts[3]))
  /\ file.lib.ixml.kind = "None"
  /\ ret.rec["ixmlCircled"] = B(<<"Q">>)
  /\ ret.rec["Category"] = B(<<"P">>)
  /\ ret.rec["Slate"] = <<>>


(***************************************************************************)
(* The editor window (src/app.py): the batch command, the undo/redo stack  *)
(* and the loader thread.  One window does one of the three: it executes   *)
(* a batch of sub-commands, it works an undo/redo stack through pushes,    *)
(* undos, redos and clears, or it loads a list of files.                   *)
(***************************************************************************)

(* The most sub-commands of a batch, and the most commands ever pushed.    *)
MaxCommands == 3

(* The most files one load is asked for.                                   *)
MaxPaths == 3

(* UndoRedoStack.__init__: max_size=50.                                    *)
max_size == 50

(* What a call of a command's execute(), undo() or redo() can do: return   *)
(* True, return False, or raise.                                           *)
Outcomes == {"True", "False", "raise"}

(* How the read of one requested path can end: read_wav_metadata returns   *)
(* a record, it raises (safe_read_metadata catches that and returns the    *)
(* empty record with "Error"), or the future itself raises when its        *)
(* result is asked for.                                                    *)
ReadOutcomes == {"returns", "raises", "future_raises"}

BatchLists == UNION {[1..n -> [execute : Outcomes]] : n \in 0..MaxCommands}

PathLists ==
  UNION {{[j \in 1..n |-> [path |-> j, read |-> o[j]]] : o \in [1..n -> ReadOutcomes]} : n \in 0..MaxPaths}

(* The reader's variables other than pc, which the window leaves alone.    *)
ReaderIdle ==
  UNCHANGED << file_path, debug, file, f_pos, metadata, tries, resume, hdrs, caught, ret >>

AppInit ==
  /\ \/ pc = "batch" /\ commands \in BatchLists /\ file_paths = <<>>
     \/ pc = "stack" /\ commands = <<>> /\ file_paths = <<>>
     \/ pc = "load" /\ commands = <<>> /\ file_paths \in PathLists
  /\ trace = <<>>
  /\ undo_stack = <<>>
  /\ redo_stack = <<>>
  /\ results = <<>>
  /\ reported = [op |-> "none"]
  /\ file_path = TargetPath
  /\ debug = FALSE
  /\ file = NoFile
  /\ f_pos = 0
  /\ metadata = <<>>
  /\ tries = <<>>
  /\ resume = "window"
  /\ hdrs = <<>>
  /\ caught = <<>>
  /\ ret = [kind |-> "running"]
  /\ NoProcess

Call(op, i) == [op |-> op, cmd |-> i]

(* BatchCommand.execute, first loop: success_count counts the sub-commands *)
(* whose execute() returned a true value.                                  *)
success_count(cmds) == Cardinality({i \in 1..Len(cmds) : cmds[i].execute = "True"})

(* BatchCommand.execute, first loop: failed_commands collects the          *)
(* sub-commands whose execute() returned a false value or raised.          *)
failed_commands(cmds) == {i \in 1..Len(cmds) : cmds[i].execute # "True"}

(* BatchCommand.execute: every sub-command is executed, in order, whether  *)
(* or not an earlier one failed.  If any failed, undo() is called on       *)
(* commands[i] for i = success_count - 1 down to 0 (here success_count     *)
(* down to 1: sequences start at 1), whatever that undo() returns or       *)
(* raises, and the value is False; otherwise the value is True.            *)
batch_execute(cmds) ==
  LET n == success_count(cmds)
      executed == [i \in 1..Len(cmds) |-> Call("execute", i)]
      rollback == [k \in 1..n |-> Call("undo", n - k + 1)]
  IN  IF failed_commands(cmds) # {}
      THEN [trace |-> executed \o rollback, value |-> FALSE]
      ELSE [trace |-> executed, value |-> TRUE]

BatchCommand_execute ==
  /\ pc = "batch"
  /\ \E r \in {batch_execute(commands)} :
       /\ trace' = r.trace
       /\ reported' = [op |-> "execute", value |-> r.value]
  /\ pc' = "batch_done"
  /\ UNCHANGED << commands, undo_stack, redo_stack, file_paths, results >>
  /\ ReaderIdle
  /\ UNCHANGED pvars

(* UndoRedoStack.push, "Limit the stack size": the oldest command is       *)
(* dropped once the stack is longer than max_size.                         *)
limit_size(stack) == IF Len(stack) > max_size THEN Tail(stack) ELSE stack

(* UndoRedoStack.push: the command is executed and what execute() returns  *)
(* is not looked at: the command goes on the undo stack, the redo stack is *)
(* cleared and push returns True.  Only when execute() raises does push    *)
(* return False with both stacks as they were.                             *)
UndoRedoStack_push ==
  /\ pc = "stack"
  /\ Len(commands) < MaxCommands
  /\ \E o \in Outcomes :
       LET c == Len(commands) + 1 IN
       /\ commands' = Append(commands, [execute |-> o])
       /\ IF o = "raise"
          THEN /\ UNCHANGED << undo_stack, redo_stack >>
               /\ reported' = [op |-> "push", cmd |-> c, value |-> FALSE, was |-> redo_stack]
          ELSE /\ undo_stack' = limit_size(Append(undo_stack, c))
               /\ redo_stack' = <<>>
               /\ reported' = [op |-> "push", cmd |-> c, value |-> TRUE, was |-> redo_stack]
  /\ UNCHANGED << pc, trace, file_paths, results >>
  /\ ReaderIdle
  /\ UNCHANGED pvars

(* UndoRedoStack.undo: False on an empty undo stack.  Otherwise the last   *)
(* command is popped and its undo() called; what undo() returns is not     *)
(* looked at and the command goes on the redo stack; if undo() raises the  *)
(* popped command is on neither stack and undo returns False.              *)
UndoRedoStack_undo ==
  /\ pc = "stack"
  /\ IF undo_stack = <<>>
     THEN /\ reported' = [op |-> "undo", value |-> FALSE]
          /\ UNCHANGED << undo_stack, redo_stack >>
     ELSE \E o \in Outcomes :
            LET c == undo_stack[Len(undo_stack)] IN
            /\ undo_stack' = SubSeq(undo_stack, 1, Len(undo_stack) - 1)
            /\ redo_stack' = IF o = "raise" THEN redo_stack ELSE Append(redo_stack, c)
            /\ reported' = [op |-> "undo", cmd |-> c, value |-> o # "raise"]
  /\ UNCHANGED << pc, commands, trace, file_paths, results >>
  /\ ReaderIdle
  /\ UNCHANGED pvars

(* UndoRedoStack.redo: False on an empty redo stack.  Otherwise the last   *)
(* undone command is popped and its redo() called; what redo() returns is  *)
(* not looked at and the command goes back on the undo stack; if redo()    *)
(* raises the popped command is on neither stack and redo returns False.   *)
UndoRedoStack_redo ==
  /\ pc = "stack"
  /\ IF redo_stack = <<>>
     THEN /\ reported' = [op |-> "redo", value |-> FALSE]
          /\ UNCHANGED << commands, undo_stack, redo_stack >>
     ELSE \E o \in Outcomes :
            LET c == redo_stack[Len(redo_stack)] IN
            /\ redo_stack' = SubSeq(redo_stack, 1, Len(redo_stack) - 1)
            /\ undo_stack' = IF o = "raise" THEN undo_stack ELSE Append(undo_stack, c)
            /\ commands' = [commands EXCEPT ![c].execute = o]
            /\ reported' = [op |-> "redo", cmd |-> c, value |-> o # "raise"]
  /\ UNCHANGED << pc, trace, file_paths, results >>
  /\ ReaderIdle
  /\ UNCHANGED pvars

(* UndoRedoStack.clear: both stacks are emptied.                           *)
UndoRedoStack_clear ==
  /\ pc = "stack"
  /\ undo_stack' = <<>>
  /\ redo_stack' = <<>>
  /\ reported' = [op |-> "clear"]
  /\ UNCHANGED << pc, commands, trace, file_paths, results >>
  /\ ReaderIdle
  /\ UNCHANGED pvars

Entry(p, m) == [path |-> p, metadata |-> m]

(* FileLoadWorker.safe_read_metadata: the record read_wav_metadata         *)
(* returns, or, when it raises, the empty record with "Error".             *)
safe_read_metadata(fp) == IF fp.read = "raises" THEN "error" ELSE "read"

(* FileLoadWorker.run, the body of the loop over the futures: when         *)
(* future.result() returns, (file_path, metadata) is appended inside the   *)
(* try; when it raises, the handler builds the empty record.  The          *)
(* statement after the try appends (file_path, metadata) in both cases.    *)
run_one(fp) ==
  IF fp.read = "future_raises"
  THEN << Entry(fp.path, "error") >>
  ELSE << Entry(fp.path, safe_read_metadata(fp)), Entry(fp.path, safe_read_metadata(fp)) >>

(* FileLoadWorker.run: the paths are taken in request order, in batches;   *)
(* isInterruptionRequested is looked at before each batch and before and   *)
(* after each file, so an interruption that arrives when stop files are    *)
(* done leaves the entries of the first stop files.                        *)
run_results(paths, stop) == Flat([j \in 1..stop |-> run_one(paths[j])])

FileLoadWorker_run_results ==
  /\ pc = "load"
  /\ \E interrupted \in BOOLEAN :
       \E stop \in (IF interrupted THEN 0..Len(file_paths) ELSE {Len(file_paths)}) :
         /\ results' = run_results(file_paths, stop)
         /\ reported' = [op |-> "run", interrupted |-> interrupted, stop |-> stop]
  /\ pc' = "load_done"
  /\ UNCHANGED << commands, trace, undo_stack, redo_stack, file_paths >>
  /\ ReaderIdle
  /\ UNCHANGED pvars

AppNext ==
  \/ BatchCommand_execute
  \/ UndoRedoStack_push
  \/ UndoRedoStack_undo
  \/ UndoRedoStack_redo
  \/ UndoRedoStack_clear
  \/ FileLoadWorker_run_results

AppSpec == AppInit /\ [][AppNext]_<< vars, pvars, avars >>

(* The sub-commands undo() was called on, in the order of the calls.       *)
Undone == [k \in 1..Len(SelectSeq(trace, LAMBDA c : c.op = "undo")) |-> SelectSeq(trace, LAMBDA c : c.op = "undo")[k].cmd]

(* C28: when at least one sub-command of a batch failed (its execute()     *)
(* returned False or raised), execute returns False and undo() has been    *)
(* called on exactly the sub-commands whose execute() succeeded, each      *)
(* once, latest first, and on no sub-command that failed.                  *)
C28_BatchRollback ==
  (pc = "batch_done" /\ failed_commands(commands) # {}) =>
    /\ reported.value = FALSE
    /\ Len(Undone) = success_count(commands)
    /\ \A k \in 1..Len(Undone) : commands[Undone[k]].execute = "True"
    /\ \A k \in 1..(Len(Undone) - 1) : Undone[k] > Undone[k + 1]

(* C29: the undo stack holds only commands whose most recent execute() or  *)
(* redo() returned True; and after a push of a command whose execute()     *)
(* returned False or raised, the command is not on the undo stack, the     *)
(* redo stack is as it was before the push, and push returned False.       *)
C29_UndoStackSucceeded ==
  pc = "stack" =>
    /\ \A k \in 1..Len(undo_stack) : commands[undo_stack[k]].execute = "True"
    /\ (reported.op = "push" /\ commands[reported.cmd].execute # "True") =>
         /\ reported.value = FALSE
         /\ \A k \in 1..Len(undo_stack) : undo_stack[k] # reported.cmd
         /\ redo_stack = reported.was

(* C30: when the load was not interrupted, the emitted results hold one    *)
(* entry per requested path, in request order, whether its read returned   *)
(* or raised.                                                              *)
C30_OneEntryPerPath ==
  (pc = "load_done" /\ ~reported.interrupted) =>
    /\ Len(results) = Len(file_paths)
    /\ \A j \in 1..Len(results) : results[j].path = file_paths[j].path

====
